---- MODULE Spec2Model ----
(***************************************************************************)
(* Model of the jellyfinorganizer media organizers: the filename parser,   *)
(* the movie / show / music identity resolution pipelines and the          *)
(* duplicate-safe file placement.                                          *)
(*                                                                         *)
(* Text is modelled character by character: a string is a sequence of      *)
(* one-character strings, so that parsing, sanitizing and path building    *)
(* are computed the way the code computes them.                            *)
(***************************************************************************)
EXTENDS Integers, Sequences, FiniteSets, TLC

-----------------------------------------------------------------------------
(* Characters and character classes of the JavaScript regular expressions. *)

LowerSeq == <<"a","b","c","d","e","f","g","h","i","j","k","l","m",
              "n","o","p","q","r","s","t","u","v","w","x","y","z">>
UpperSeq == <<"A","B","C","D","E","F","G","H","I","J","K","L","M",
              "N","O","P","Q","R","S","T","U","V","W","X","Y","Z">>
DigitSeq == <<"0","1","2","3","4","5","6","7","8","9">>

Lower == {LowerSeq[i] : i \in 1..26}
Upper == {UpperSeq[i] : i \in 1..26}
Digit == {DigitSeq[i] : i \in 1..10}
Space == {" "}
Punct == {".", "_", "-", "(", ")", ":", "/", "?", "%", "*", "|", "<", ">", ",", "'", "&", "\""}
Alphabet == Lower \cup Upper \cup Digit \cup Space \cup Punct
WordChar == Lower \cup Upper \cup Digit \cup {"_"}
NonWord == Alphabet \ WordChar

\* String.prototype.toLowerCase on one character
LowerChar(c) ==
  IF c \in Upper THEN LowerSeq[CHOOSE i \in 1..26 : UpperSeq[i] = c] ELSE c

ToLowerCase(s) == [i \in 1..Len(s) |-> LowerChar(s[i])]

\* both cases of a letter: a literal under the /i flag
BothCases(c) ==
  {c} \cup {d \in Lower \cup Upper : LowerChar(d) = LowerChar(c)}

\* s.substring(a, b) with 0-based a inclusive, b exclusive (clamped)
Substring(s, a, b) ==
  LET lo == IF a < 0 THEN 0 ELSE IF a > Len(s) THEN Len(s) ELSE a
      hi == IF b < 0 THEN 0 ELSE IF b > Len(s) THEN Len(s) ELSE b
  IN IF lo >= hi THEN <<>> ELSE SubSeq(s, lo + 1, hi)

RECURSIVE TrimStart(_)
TrimStart(s) ==
  IF Len(s) > 0 /\ s[1] \in Space THEN TrimStart(Tail(s)) ELSE s

RECURSIVE TrimEnd(_)
TrimEnd(s) ==
  IF Len(s) > 0 /\ s[Len(s)] \in Space THEN TrimEnd(SubSeq(s, 1, Len(s) - 1)) ELSE s

\* String.prototype.trim
Trim(s) == TrimEnd(TrimStart(s))

\* s.replace(/[set]/g, c)
ReplaceChars(s, set, c) == [i \in 1..Len(s) |-> IF s[i] \in set THEN c ELSE s[i]]

\* s.replace(/\s+/g, " ")
RECURSIVE CollapseSpaces(_)
CollapseSpaces(s) ==
  IF Len(s) = 0 THEN <<>>
  ELSE IF s[1] \in Space
       THEN <<" ">> \o CollapseSpaces(TrimStart(s))
       ELSE <<s[1]>> \o CollapseSpaces(Tail(s))

\* String(n) for a non-negative integer
RECURSIVE NumToStr(_)
NumToStr(n) ==
  IF n < 10 THEN <<DigitSeq[n + 1]>>
  ELSE NumToStr(n \div 10) \o <<DigitSeq[(n % 10) + 1]>>

DigitVal(c) == (CHOOSE i \in 1..10 : DigitSeq[i] = c) - 1

\* parseInt(s, 10) of a string of decimal digits
RECURSIVE ParseInt(_)
ParseInt(s) ==
  IF Len(s) = 0 THEN 0
  ELSE 10 * ParseInt(SubSeq(s, 1, Len(s) - 1)) + DigitVal(s[Len(s)])

\* s.padStart(2, "0")
PadStart2(s) ==
  IF Len(s) = 0 THEN <<"0", "0">> ELSE IF Len(s) < 2 THEN <<"0">> \o s ELSE s

\* array.join(sep)
RECURSIVE Join(_, _)
Join(parts, sep) ==
  IF Len(parts) = 0 THEN <<>>
  ELSE IF Len(parts) = 1 THEN parts[1]
  ELSE parts[1] \o sep \o Join(Tail(parts), sep)

-----------------------------------------------------------------------------
(* A backtracking matcher for the regular expressions of the parser.  A    *)
(* pattern is a sequence of nodes; alternatives are tried in the order the *)
(* JavaScript engine tries them, so the first success is the engine's      *)
(* match.  Positions are 1-based indices of the next character to read.    *)

RxSet(cs) == [t |-> "set", cs |-> cs]
\* {lo,hi} repetition of a character class; hi = -1 stands for "no upper limit"
RxRep(cs, lo, hi) == [t |-> "rep", cs |-> cs, min |-> lo, max |-> hi, lazy |-> FALSE]
RxLazy(cs, lo, hi) == [t |-> "rep", cs |-> cs, min |-> lo, max |-> hi, lazy |-> TRUE]
RxStar(cs) == RxRep(cs, 0, -1)
RxPlus(cs) == RxRep(cs, 1, -1)
RxOpt(sub) == [t |-> "opt", sub |-> sub]
RxAlt(alts) == [t |-> "alt", alts |-> alts]
RxOpen(n) == [t |-> "open", n |-> n]
RxClose(n) == [t |-> "close", n |-> n]
RxBol == [t |-> "bol"]
RxEol == [t |-> "eol"]
\* a literal word under the /i flag
RxLitI(w) == [i \in 1..Len(w) |-> RxSet(BothCases(w[i]))]

\* capture groups 1..4, <<0, 0>> while a group has not taken part in the match
NoCaps == [n \in 1..4 |-> <<0, 0>>]
RxFail == [ok |-> FALSE, b |-> 0, e |-> 0, caps |-> NoCaps]

\* number of consecutive characters of class cs from position i, at most hi
RECURSIVE RunLen(_, _, _, _)
RunLen(s, i, cs, hi) ==
  IF hi = 0 \/ i > Len(s) \/ s[i] \notin cs THEN 0
  ELSE 1 + RunLen(s, i + 1, cs, hi - 1)

RECURSIVE RxMatch(_, _, _, _)
RECURSIVE RxTryGreedy(_, _, _, _, _, _)
RECURSIVE RxTryLazy(_, _, _, _, _, _)
RECURSIVE RxTryAlt(_, _, _, _, _, _)

RxMatch(nodes, s, i, caps) ==
  IF Len(nodes) = 0 THEN [ok |-> TRUE, b |-> 0, e |-> i, caps |-> caps]
  ELSE
    LET n == Head(nodes)
        rest == Tail(nodes)
    IN CASE n.t = "set" ->
              IF i <= Len(s) /\ s[i] \in n.cs
              THEN RxMatch(rest, s, i + 1, caps) ELSE RxFail
         [] n.t = "rep" ->
              LET avail == RunLen(s, i, n.cs, n.max)
              IN IF avail < n.min THEN RxFail
                 ELSE IF n.lazy THEN RxTryLazy(rest, s, i, caps, avail, n.min)
                 ELSE RxTryGreedy(rest, s, i, caps, n.min, avail)
         [] n.t = "opt" ->
              LET with == RxMatch(n.sub \o rest, s, i, caps)
              IN IF with.ok THEN with ELSE RxMatch(rest, s, i, caps)
         [] n.t = "alt" -> RxTryAlt(n.alts, rest, s, i, caps, 1)
         [] n.t = "open" ->
              RxMatch(rest, s, i, [caps EXCEPT ![n.n] = <<i, 0>>])
         [] n.t = "close" ->
              RxMatch(rest, s, i, [caps EXCEPT ![n.n] = <<caps[n.n][1], i>>])
         [] n.t = "bol" ->
              IF i = 1 THEN RxMatch(rest, s, i, caps) ELSE RxFail
         [] n.t = "eol" ->
              IF i = Len(s) + 1 THEN RxMatch(rest, s, i, caps) ELSE RxFail

\* greedy repetition: the longest count first, then shorter ones
RxTryGreedy(rest, s, i, caps, lo, c) ==
  LET r == RxMatch(rest, s, i + c, caps)
  IN IF r.ok THEN r
     ELSE IF c > lo THEN RxTryGreedy(rest, s, i, caps, lo, c - 1)
     ELSE RxFail

\* lazy repetition: the shortest count first, then longer ones
RxTryLazy(rest, s, i, caps, hi, c) ==
  LET r == RxMatch(rest, s, i + c, caps)
  IN IF r.ok THEN r
     ELSE IF c < hi THEN RxTryLazy(rest, s, i, caps, hi, c + 1)
     ELSE RxFail

RxTryAlt(alts, rest, s, i, caps, k) ==
  IF k > Len(alts) THEN RxFail
  ELSE LET r == RxMatch(alts[k] \o rest, s, i, caps)
       IN IF r.ok THEN r ELSE RxTryAlt(alts, rest, s, i, caps, k + 1)

\* first match at or after position from (RegExp.prototype.exec with lastIndex)
RECURSIVE RxSearch(_, _, _)
RxSearch(nodes, s, from) ==
  IF from > Len(s) + 1 THEN RxFail
  ELSE LET r == RxMatch(nodes, s, from, NoCaps)
       IN IF r.ok THEN [r EXCEPT !.b = from]
          ELSE RxSearch(nodes, s, from + 1)

\* text of capture group n ("" when the group did not take part)
RxCap(s, r, n) ==
  IF r.caps[n][1] = 0 THEN <<>> ELSE SubSeq(s, r.caps[n][1], r.caps[n][2] - 1)

\* s.replace(/re/g, "$1 $2")
RECURSIVE RxReplaceSpace(_, _, _)
RxReplaceSpace(nodes, s, from) ==
  LET r == RxSearch(nodes, s, from)
  IN IF ~r.ok \/ r.e = r.b THEN SubSeq(s, from, Len(s))
     ELSE SubSeq(s, from, r.b - 1) \o RxCap(s, r, 1) \o <<" ">> \o RxCap(s, r, 2)
          \o RxReplaceSpace(nodes, s, r.e)

-----------------------------------------------------------------------------
(* JavaScript values that may be null, undefined, a number or a string.    *)

JsNull == [k |-> "null", n |-> 0, s |-> <<>>]
JsUndef == [k |-> "undef", n |-> 0, s |-> <<>>]
JsNum(v) == [k |-> "num", n |-> v, s |-> <<>>]
JsStr(x) == [k |-> "str", n |-> 0, s |-> x]

\* truthiness of a value in a condition
Truthy(v) ==
  CASE v.k = "num" -> v.n # 0
    [] v.k = "str" -> Len(v.s) > 0
    [] OTHER -> FALSE

\* the text a template literal `${v}` produces
Render(v) ==
  CASE v.k = "num" -> NumToStr(v.n)
    [] v.k = "str" -> v.s
    [] v.k = "null" -> <<"n","u","l","l">>
    [] OTHER -> <<"u","n","d","e","f","i","n","e","d">>

-----------------------------------------------------------------------------
(* node:path on a single name.                                             *)

RECURSIVE LastIndexOf(_, _)
LastIndexOf(s, c) ==
  IF Len(s) = 0 THEN 0
  ELSE IF s[Len(s)] = c THEN Len(s)
  ELSE LastIndexOf(SubSeq(s, 1, Len(s) - 1), c)

\* path.extname of a file name
Extname(name) ==
  LET k == LastIndexOf(name, ".")
  IN IF k <= 1 THEN <<>> ELSE SubSeq(name, k, Len(name))

\* path.basename(name, ext)
BasenameNoExt(name, ext) ==
  IF Len(ext) > 0 /\ Len(name) > Len(ext)
     /\ SubSeq(name, Len(name) - Len(ext) + 1, Len(name)) = ext
  THEN SubSeq(name, 1, Len(name) - Len(ext))
  ELSE name

-----------------------------------------------------------------------------
(* filenameParser.ts: dictionary-guided word segmentation.                 *)

SetMax(S) == CHOOSE x \in S : \A y \in S : y <= x

\* end j of the longest dictionary word block.substring(i, j), 0 when there is none
LongestMatchEnd(block, dictionary, i) ==
  LET ends == {j \in (i + 1)..Len(block) :
                 ToLowerCase(Substring(block, i, j)) \in dictionary}
  IN IF ends = {} THEN 0 ELSE SetMax(ends)

\* the inner while loop: grow the non-word chunk until a word can start
RECURSIVE NonWordChunkEnd(_, _, _)
NonWordChunkEnd(block, dictionary, n) ==
  IF n < Len(block) /\ LongestMatchEnd(block, dictionary, n) = 0
  THEN NonWordChunkEnd(block, dictionary, n + 1)
  ELSE n

\* the while (i < currentBlock.length) loop: the pieces pushed to blockResult
RECURSIVE SegmentBlock(_, _, _)
SegmentBlock(block, dictionary, i) ==
  IF i >= Len(block) THEN <<>>
  ELSE LET m == LongestMatchEnd(block, dictionary, i)
           nxt == IF m > 0 THEN m ELSE NonWordChunkEnd(block, dictionary, i + 1)
       IN <<Substring(block, i, nxt)>> \o SegmentBlock(block, dictionary, nxt)

\* text.split(/(\s+)/): the maximal runs of blanks and of non-blanks, in order
RECURSIVE SplitKeepSpaces(_)
SplitKeepSpaces(text) ==
  IF Len(text) = 0 THEN <<>>
  ELSE LET n == IF text[1] \in Space THEN RunLen(text, 1, Space, -1)
                ELSE RunLen(text, 1, Alphabet \ Space, -1)
       IN <<SubSeq(text, 1, n)>> \o SplitKeepSpaces(SubSeq(text, n + 1, Len(text)))

RECURSIVE SplitResultParts(_, _)
SplitResultParts(parts, dictionary) ==
  IF Len(parts) = 0 THEN <<>>
  ELSE LET part == Head(parts)
           out == IF part[1] \in Space THEN part
                  ELSE Join(SegmentBlock(part, dictionary, 0), <<" ">>)
       IN out \o SplitResultParts(Tail(parts), dictionary)

splitStringByWordsLowercases(text, dictionary) ==
  IF Len(text) = 0 \/ dictionary = {} THEN text
  ELSE ToLowerCase(Trim(CollapseSpaces(SplitResultParts(SplitKeepSpaces(text), dictionary))))

splitStringByWords(text, dictionary) ==
  IF Len(text) = 0 \/ dictionary = {} THEN text
  ELSE Trim(CollapseSpaces(SplitResultParts(SplitKeepSpaces(text), dictionary)))

-----------------------------------------------------------------------------
(* filenameParser.ts: parseMovieFilename.                                  *)

\* /([a-z])([A-Z])/g
RxCamel == <<RxOpen(1), RxSet(Lower), RxClose(1), RxOpen(2), RxSet(Upper), RxClose(2)>>

\* /([A-Z]+)([A-Z][a-z])/g
RxAcronym == <<RxOpen(1), RxPlus(Upper), RxClose(1),
               RxOpen(2), RxSet(Upper), RxSet(Lower), RxClose(2)>>

\* /(.+?)\s*\((\d{4})\)/
RxTitleParenYear ==
  <<RxOpen(1), RxLazy(Alphabet, 1, -1), RxClose(1), RxStar(Space),
    RxSet({"("}), RxOpen(2), RxRep(Digit, 4, 4), RxClose(2), RxSet({")"})>>

\* /(?:\.| |^)(\d{4})(?:\.| |$|[^px\d])/g
RxYear ==
  <<RxAlt(<< <<RxSet({"."})>>, <<RxSet({" "})>>, <<RxBol>> >>),
    RxOpen(1), RxRep(Digit, 4, 4), RxClose(1),
    RxAlt(<< <<RxSet({"."})>>, <<RxSet({" "})>>, <<RxEol>>,
             <<RxSet(Alphabet \ ({"p", "x"} \cup Digit))>> >>)>>

\* steps 1-4 of parseMovieFilename and the trim that follows
CleanMovieName(name, enableWordlistSplitting, wordList) ==
  LET s1 == ReplaceChars(name, {".", "_"}, " ")
      s2 == RxReplaceSpace(RxCamel, s1, 1)
      s3 == RxReplaceSpace(RxAcronym, s2, 1)
  IN Trim(splitStringByWords(s3, IF enableWordlistSplitting THEN wordList ELSE {}))

\* the while ((yearMatch = yearRegex.exec(...)) !== null) loop
RECURSIVE YearCandidates(_, _)
YearCandidates(name, from) ==
  LET r == RxSearch(RxYear, name, from)
  IN IF ~r.ok THEN <<>>
     ELSE LET yr == RxCap(name, r, 1)
              after == ToLowerCase(Substring(name, r.e - 1, Len(name)))
              skip == yr = <<"1","0","8","0">> /\ Len(after) > 0 /\ after[1] = "p"
          IN (IF skip THEN <<>> ELSE <<[year |-> yr, index |-> r.b - 1]>>)
             \o YearCandidates(name, r.e)

\* s.replace(/[\.\s]+$/, "")
RECURSIVE StripTrailingDotsSpaces(_)
StripTrailingDotsSpaces(s) ==
  IF Len(s) > 0 /\ s[Len(s)] \in {".", " "}
  THEN StripTrailingDotsSpaces(SubSeq(s, 1, Len(s) - 1)) ELSE s

\* Pattern 2 and the fallback: the last year candidate splits title from year
MovieYearPattern(nameWithoutExt, yearCandidates) ==
  LET chosenYear == yearCandidates[Len(yearCandidates)]
      titlePart == Trim(StripTrailingDotsSpaces(
                          Substring(nameWithoutExt, 0, chosenYear.index)))
  IN IF Len(yearCandidates) > 0 /\ Len(titlePart) > 0
     THEN [title |-> titlePart, year |-> JsStr(chosenYear.year)]
     ELSE [title |-> Trim(nameWithoutExt), year |-> JsNull]

\* Pattern 1, "Title (Year)", before the others
MoviePatterns(nameWithoutExt, match) ==
  IF match.ok /\ Len(RxCap(nameWithoutExt, match, 1)) > 0
     /\ Len(RxCap(nameWithoutExt, match, 2)) > 0
  THEN [title |-> Trim(RxCap(nameWithoutExt, match, 1)),
        year |-> JsStr(RxCap(nameWithoutExt, match, 2))]
  ELSE MovieYearPattern(nameWithoutExt, YearCandidates(nameWithoutExt, 1))

ParseCleanedMovieName(nameWithoutExt) ==
  MoviePatterns(nameWithoutExt, RxSearch(RxTitleParenYear, nameWithoutExt, 1))

parseMovieFilename(filename, enableWordlistSplitting, wordList) ==
  ParseCleanedMovieName(CleanMovieName(BasenameNoExt(filename, Extname(filename)),
                                       enableWordlistSplitting, wordList))

-----------------------------------------------------------------------------
(* filenameParser.ts: parseShowFilename.                                   *)

\* E(?:p(?:isode)?)? under the /i flag
RxEpisodeWord ==
  RxLitI(<<"e">>) \o <<RxOpt(RxLitI(<<"p">>) \o <<RxOpt(RxLitI(<<"i","s","o","d","e">>))>>)>>

\* sePatterns[0]: S01E01, Season 1 Episode 1, with an optional second episode
RxSeasonEpisode ==
  <<RxOpen(1), RxLazy(Alphabet, 0, -1), RxClose(1), RxStar(NonWord)>>
  \o RxLitI(<<"s">>) \o <<RxOpt(RxLitI(<<"e","a","s","o","n">>)), RxStar(NonWord),
                          RxOpen(2), RxRep(Digit, 1, 3), RxClose(2), RxStar(NonWord)>>
  \o RxEpisodeWord \o <<RxStar(NonWord), RxOpen(3), RxRep(Digit, 1, 3), RxClose(3),
                         RxOpt(<<RxStar(NonWord)>> \o RxEpisodeWord
                               \o <<RxStar(NonWord), RxOpen(4), RxRep(Digit, 1, 3),
                                    RxClose(4)>>)>>

\* sePatterns[1]: 1x01, 1x01-02
RxNxNN ==
  <<RxOpen(1), RxLazy(Alphabet, 0, -1), RxClose(1), RxStar(NonWord),
    RxOpen(2), RxRep(Digit, 1, 3), RxClose(2)>>
  \o RxLitI(<<"x">>)
  \o <<RxOpen(3), RxRep(Digit, 1, 3), RxClose(3),
       RxOpt(<<RxStar({" ", "-"}), RxRep({"-"}, 0, 1), RxStar({" ", "D", "d"}),
               RxOpen(4), RxRep(Digit, 1, 3), RxClose(4)>>)>>

\* sePatterns[2]: Episode 1, Part 1, Ep 1, Pt 1
RxEpisodeOnly ==
  <<RxOpen(1), RxLazy(Alphabet, 0, -1), RxClose(1), RxStar(NonWord),
    RxAlt(<<RxLitI(<<"e","p","i","s","o","d","e">>), RxLitI(<<"p","a","r","t">>),
            RxLitI(<<"e","p">>), RxLitI(<<"p","t">>)>>),
    RxStar(NonWord), RxOpen(2), RxRep(Digit, 1, 3), RxClose(2)>>

\* /(.*?)\s*\(?(\d{4})\)?$/
RxTitleYearEnd ==
  <<RxOpen(1), RxLazy(Alphabet, 0, -1), RxClose(1), RxStar(Space),
    RxRep({"("}, 0, 1), RxOpen(2), RxRep(Digit, 4, 4), RxClose(2), RxRep({")"}, 0, 1), RxEol>>

qualityTags ==
  << <<"1","0","8","0","p">>, <<"7","2","0","p">>, <<"4","8","0","p">>,
     <<"H","D","T","V">>, <<"W","E","B","-","D","L">>, <<"W","E","B","R","i","p">>,
     <<"B","l","u","R","a","y">>, <<"x","2","6","4">>, <<"x","2","6","5">>,
     <<"A","A","C">>, <<"D","T","S">> >>

\* s.replace(/[set]+$/, "")
RECURSIVE StripTrailing(_, _)
StripTrailing(s, set) ==
  IF Len(s) > 0 /\ s[Len(s)] \in set THEN StripTrailing(SubSeq(s, 1, Len(s) - 1), set) ELSE s

\* s.replace(/^[set]+/, "")
RECURSIVE StripLeading(_, _)
StripLeading(s, set) ==
  IF Len(s) > 0 /\ s[1] \in set THEN StripLeading(Tail(s), set) ELSE s

\* s.indexOf(sub), 0-based, -1 when absent
IndexOf(s, sub) ==
  LET at == {i \in 0..(Len(s) - Len(sub)) : SubSeq(s, i + 1, i + Len(sub)) = sub}
  IN IF at = {} THEN -1 ELSE CHOOSE i \in at : \A j \in at : i <= j

\* the smallest index at which a quality tag starts in the remainder, else its length
CutOffIndex(remainder) ==
  LET found == {IndexOf(ToLowerCase(remainder), ToLowerCase(qualityTags[t])) :
                  t \in 1..Len(qualityTags)} \ {-1}
  IN IF found = {} THEN Len(remainder) ELSE CHOOSE i \in found : \A j \in found : i <= j

\* a string, or null when it is empty ( s || null )
StrOrNull(s) == IF Len(s) = 0 THEN JsNull ELSE JsStr(s)

\* the episode title taken from what follows the season/episode marker
EpisodeTitleFrom(remainder) ==
  StrOrNull(Trim(StripTrailing(StripLeading(Substring(remainder, 0, CutOffIndex(remainder)),
                                            {"-", " "}), {"-", " "})))

\* split of the title candidate into series title and year
SeriesTitleAndYear(titleCandidate, yearMatch) ==
  IF yearMatch.ok /\ Len(RxCap(titleCandidate, yearMatch, 1)) > 0
  THEN [seriesTitle |-> JsStr(Trim(RxCap(titleCandidate, yearMatch, 1))),
        year |-> JsStr(RxCap(titleCandidate, yearMatch, 2))]
  ELSE [seriesTitle |-> JsStr(titleCandidate), year |-> JsNull]

TitleCandidateSplit(titleCandidate) ==
  SeriesTitleAndYear(titleCandidate, RxSearch(RxTitleYearEnd, titleCandidate, 1))

\* the body of the loop over sePatterns for the pattern that matched
ShowFromMatch(cleanedName, match, sIdx, eIdx) ==
  TitleCandidateSplit(Trim(StripTrailing(Trim(RxCap(cleanedName, match, 1)), {" ", "-"})))
  @@ [seasonNumber |-> IF sIdx > 0 THEN JsNum(ParseInt(RxCap(cleanedName, match, sIdx)))
                       ELSE JsNull,
      episodeNumber |-> JsNum(ParseInt(RxCap(cleanedName, match, eIdx))),
      episodeTitle |-> EpisodeTitleFrom(
                         Trim(Substring(cleanedName, match.e - match.b, Len(cleanedName))))]

\* the patterns in order, the first that matches decides
ShowPatterns(cleanedName, m1, m2, m3) ==
  IF m1.ok THEN ShowFromMatch(cleanedName, m1, 2, 3)
  ELSE IF m2.ok THEN ShowFromMatch(cleanedName, m2, 2, 3)
  ELSE IF m3.ok THEN ShowFromMatch(cleanedName, m3, 0, 2)
  ELSE [seriesTitle |-> JsStr(cleanedName), year |-> JsNull, seasonNumber |-> JsNull,
        episodeNumber |-> JsNull, episodeTitle |-> JsNull]

\* final title cleaning: word splitting, blanks collapsed, "" becomes null
CleanSeriesTitle(seriesTitle, enableWordlistSplitting, wordList) ==
  IF ~Truthy(seriesTitle) THEN JsNull
  ELSE IF enableWordlistSplitting /\ wordList # {}
  THEN StrOrNull(Trim(CollapseSpaces(
         splitStringByWords(RxReplaceSpace(RxAcronym,
                              RxReplaceSpace(RxCamel, seriesTitle.s, 1), 1), wordList))))
  ELSE StrOrNull(Trim(CollapseSpaces(seriesTitle.s)))

ShowParseFinishDefaultsWithoutTitle(p, seriesTitle) ==
  [p EXCEPT !.seriesTitle = seriesTitle,
            !.seasonNumber = IF p.seasonNumber.k = "null" /\ p.episodeNumber.k # "null"
                             THEN JsNum(1) ELSE p.seasonNumber]

\* the cleaned title put in, and season 1 assumed for an episode without season
ShowParseFinish(p, seriesTitle) ==
  [p EXCEPT !.seriesTitle = seriesTitle,
            !.seasonNumber = IF p.seasonNumber.k = "null" /\ p.episodeNumber.k # "null"
                                /\ seriesTitle.k # "null"
                             THEN JsNum(1) ELSE p.seasonNumber]

ShowParseClean(p, enableWordlistSplitting, wordList) ==
  ShowParseFinish(p, CleanSeriesTitle(p.seriesTitle, enableWordlistSplitting, wordList))

ParseCleanedShowName(cleanedName, enableWordlistSplitting, wordList) ==
  ShowParseClean(ShowPatterns(cleanedName, RxSearch(RxSeasonEpisode, cleanedName, 1),
                              RxSearch(RxNxNN, cleanedName, 1),
                              RxSearch(RxEpisodeOnly, cleanedName, 1)),
                 enableWordlistSplitting, wordList)

parseShowFilename(filename, enableWordlistSplitting, wordList) ==
  ParseCleanedShowName(Trim(ReplaceChars(BasenameNoExt(filename, Extname(filename)),
                                         {".", "_"}, " ")),
                       enableWordlistSplitting, wordList)

-----------------------------------------------------------------------------
(* Paths: a path is the sequence of its segments, sourceDirectory first.   *)

Root == <<"l","i","b">>
sourceDirectory == <<Root>>

Dirname(p) == IF Len(p) <= 1 THEN <<>> ELSE SubSeq(p, 1, Len(p) - 1)
Basename(p) == IF Len(p) = 0 THEN <<>> ELSE p[Len(p)]
PathJoin(dir, name) == IF Len(name) = 0 THEN dir ELSE dir \o <<name>>

\* a directory and all its ancestors: what mkdir(dir, {recursive: true}) ensures
Ancestors(dir) == {SubSeq(dir, 1, n) : n \in 1..Len(dir)}

\* `${baseName}_dup_${dupCount}${fileExt}`
DupFileName(targetFileName, fileExt, dupCount) ==
  BasenameNoExt(targetFileName, fileExt) \o <<"_","d","u","p","_">>
    \o NumToStr(dupCount) \o fileExt

\* the safety break of the duplicate probe loops: if (dupCount > 100)
MaxDupAttempts == 100

\* name.replace(/[\/\?%\*:|"<>\.]/g, "_")
IllegalChars == {"/", "?", "%", "*", ":", "|", "\"", "<", ">", "."}

\* organizeMovies: targetFolderName.replace(...).trim()
SanitizeFolderName(name) == Trim(ReplaceChars(name, IllegalChars, "_"))

-----------------------------------------------------------------------------
(* tmdb.ts: fetchTmdbMovieMetadata.  A raw response is what the HTTP call  *)
(* produced: ok = FALSE for a non-2xx status or a thrown fetch, otherwise  *)
(* the list of results.                                                    *)

NoInfo == [ok |-> FALSE, title |-> <<>>, year |-> JsUndef]

\* the year the search URL carries: only when typeof filenameYear === 'number'
TmdbMovieQuery(filenameTitle, filenameYear) ==
  [title |-> Trim(filenameTitle),
   year |-> IF filenameYear.k = "num" THEN filenameYear ELSE JsUndef]

\* movie.release_date.substring(0, 4) parsed as a number, undefined when unusable
ReleaseYear(date) ==
  LET releaseYearString == Substring(date, 0, 4)
      year == IF Len(releaseYearString) > 0
                 /\ \A i \in 1..Len(releaseYearString) : releaseYearString[i] \in Digit
              THEN ParseInt(releaseYearString) ELSE 0
  IN IF year # 0 THEN JsNum(year) ELSE JsUndef

fetchTmdbMovieMetadata(raw) ==
  IF ~raw.ok \/ Len(raw.results) = 0 THEN NoInfo
  ELSE LET movie == raw.results[1]
           bestTitle == IF Len(movie.title) > 0 THEN movie.title ELSE movie.original_title
       IN IF Len(bestTitle) > 0
          THEN [ok |-> TRUE, title |-> Trim(bestTitle), year |-> ReleaseYear(movie.release_date)]
          ELSE NoInfo

\* searchTmdbShow sends the trimmed title only
TmdbShowQuery(filenameTitle) == [title |-> Trim(filenameTitle)]

NoShow == [ok |-> FALSE, id |-> 0, title |-> <<>>, year |-> JsUndef]

searchTmdbShow(raw) ==
  IF ~raw.ok \/ Len(raw.results) = 0 THEN NoShow
  ELSE LET show == raw.results[1]
           bestTitle == IF Len(show.name) > 0 THEN show.name ELSE show.original_name
       IN IF Len(bestTitle) > 0
          THEN [ok |-> TRUE, id |-> show.id, title |-> Trim(bestTitle),
                year |-> ReleaseYear(show.first_air_date)]
          ELSE NoShow

\* fetchTmdbSeasonDetails: the episodes of the season, or null
NoSeason == [ok |-> FALSE, episodes |-> <<>>]
fetchTmdbSeasonDetails(raw) == IF raw.ok /\ raw.hasEpisodes THEN [ok |-> TRUE, episodes |-> raw.episodes] ELSE NoSeason

\* seasonDetails.episodes.find(ep => ep.episode_number === finalEpisodeNumber)
FindEpisode(episodes, episodeNumber) ==
  LET at == {i \in 1..Len(episodes) : episodes[i].episode_number = episodeNumber}
  IN IF at = {} THEN <<>> ELSE episodes[CHOOSE i \in at : \A j \in at : i <= j].name

-----------------------------------------------------------------------------
(* The world around the organizers: files on disk with their embedded      *)
(* tags, the dictionary file, the answers of the provider and of the LLM.  *)

Ext == <<".","m","k","v">>
WordFile == {<<"t","o">>, <<"b","e">>}

NoMeta == [ok |-> FALSE, title |-> JsUndef, year |-> JsUndef,
           seriesTitle |-> JsUndef, episodeTitle |-> JsUndef,
           seasonNumber |-> JsUndef, episodeNumber |-> JsUndef,
           artist |-> JsUndef, albumArtist |-> JsUndef, album |-> JsUndef,
           trackNumber |-> JsUndef]

TitleJaws == <<"J","a","w","s">>
TitleUp == <<"U","p">>
ArtistAb == <<"A","b">>
NameTobe2009 == <<"t","o","b","e",".","2","0","0","9">> \o Ext
NameToBeCanon == <<"t","o"," ","b","e"," ","(","2","0","0","9",")">>

\* the movie files a library may hold: path and embedded metadata
MovieCatalogue ==
  << [path |-> <<Root, NameTobe2009>>, meta |-> NoMeta],
     [path |-> <<Root, <<"x">>, NameTobe2009>>, meta |-> NoMeta],
     [path |-> <<Root, TitleJaws \o Ext>>,
      meta |-> [NoMeta EXCEPT !.ok = TRUE, !.title = JsStr(TitleJaws), !.year = JsNum(1975)]],
     [path |-> <<Root, NameToBeCanon, NameToBeCanon \o Ext>>, meta |-> NoMeta] >>

NameS01E02 == <<"S","0","1","E","0","2">> \o Ext
NameTobeS01E02 == <<"t","o","b","e",".","S","0","1","E","0","2">> \o Ext

\* the show files a library may hold
ShowCatalogue ==
  << [path |-> <<Root, NameS01E02>>, meta |-> NoMeta],
     [path |-> <<Root, NameTobeS01E02>>, meta |-> NoMeta],
     [path |-> <<Root, <<"x">>, NameTobeS01E02>>, meta |-> NoMeta],
     [path |-> <<Root, <<"e">> \o Ext>>,
      meta |-> [NoMeta EXCEPT !.ok = TRUE, !.seriesTitle = JsStr(TitleJaws),
                              !.seasonNumber = JsNum(1), !.episodeNumber = JsNum(2),
                              !.episodeTitle = JsStr(ArtistAb),
                              !.year = JsNum(1975)]],
     [path |-> <<Root, ArtistAb \o Ext>>, meta |-> NoMeta] >>

MusicExt == <<".","m","p","3">>
TrackFileName == <<"0","1"," ","-"," ","U","p">> \o MusicExt

\* tags that name artist, album, title and track number
FullTags ==
  [NoMeta EXCEPT !.ok = TRUE, !.artist = JsStr(ArtistAb), !.album = JsStr(TitleJaws),
                 !.title = JsStr(TitleUp), !.trackNumber = JsNum(1)]

\* the music files a library may hold: path and embedded tags
MusicCatalogue ==
  << [path |-> <<Root, <<"a">> \o MusicExt>>, meta |-> FullTags],
     [path |-> <<Root, <<"x">>, <<"a">> \o MusicExt>>, meta |-> FullTags],
     [path |-> <<Root, ArtistAb, TitleJaws, TrackFileName>>, meta |-> FullTags],
     [path |-> <<Root, <<"b">> \o MusicExt>>,
      meta |-> [NoMeta EXCEPT !.ok = TRUE, !.title = JsStr(TitleUp),
                              !.trackNumber = JsNum(2)]],
     [path |-> <<Root, <<"c">> \o MusicExt>>, meta |-> NoMeta] >>

Catalogue(category) ==
  IF category = "shows" THEN ShowCatalogue
  ELSE IF category = "music" THEN MusicCatalogue ELSE MovieCatalogue

\* a release as the search lists it
FoundRelease(id, score) ==
  [id |-> id, title |-> TitleJaws, artistCredit |-> <<ArtistAb>>, score |-> JsNum(score)]

\* answers of the release search: a failure, or three candidates of which the
\* first one scores below both thresholds and the second one between them
MbSearchAnswers ==
  {[ok |-> FALSE, releases |-> <<>>],
   [ok |-> TRUE,
    releases |-> <<FoundRelease(3, 64), FoundRelease(1, 68), FoundRelease(2, 90)>>]}

\* a release as the lookup returns it, each track credited to trackArtist
ReleaseWithTracks(artistCredit, primaryType, trackArtist) ==
  [ok |-> TRUE, title |-> TitleJaws, artistCredit |-> <<artistCredit>>,
   date |-> JsStr(<<"1","9","7","5","-","0","6","-","2","0">>),
   primaryType |-> JsStr(primaryType),
   media |-> <<[tracks |-> <<[title |-> TitleUp, number |-> <<"1">>,
                              artistCredit |-> <<trackArtist>>],
                             [title |-> TitleJaws, number |-> <<"2">>,
                              artistCredit |-> <<trackArtist>>]>>]>>]

\* answers of the release lookup: a failure, an album, a compilation by its
\* release-group type whose second track is numbered 2.1 (track numbers are free
\* text), a release credited to Various Artists as its tracks are
MbLookupAnswers ==
  {[ok |-> FALSE, title |-> <<>>, artistCredit |-> <<>>, date |-> JsUndef,
    primaryType |-> JsUndef, media |-> <<>>],
   ReleaseWithTracks(ArtistAb, <<"A","l","b","u","m">>, ArtistAb),
   [ReleaseWithTracks(ArtistAb, <<"C","o","m","p","i","l","a","t","i","o","n">>, ArtistAb)
      EXCEPT !.media[1].tracks[2].number = <<"2", ".", "1">>],
   ReleaseWithTracks(<<"V","A","R","I","O","U","S"," ","A","r","t","i","s","t","s">>,
                     <<"A","l","b","u","m">>,
                     <<"V","a","r","i","o","u","s"," ","A","r","t","i","s","t","s">>)}

\* answers of getCorrectedMusicInfoFromLLM once the service is called
LlmMusicAnswers ==
  {[ok |-> FALSE, artist |-> <<>>, album |-> <<>>, title |-> <<>>,
    year |-> JsNull, trackNumber |-> JsNull],
   [ok |-> TRUE, artist |-> ArtistAb, album |-> TitleJaws, title |-> <<>>,
    year |-> JsNum(1975), trackNumber |-> JsNull],
   [ok |-> TRUE, artist |-> ArtistAb, album |-> <<>>, title |-> TitleUp,
    year |-> JsNull, trackNumber |-> JsNull]}

\* raw answers of the show search endpoint
TmdbShowFailures == {[ok |-> FALSE, results |-> <<>>], [ok |-> TRUE, results |-> <<>>]}
TmdbShowHits ==
  {[ok |-> TRUE, results |-> <<[id |-> 7, name |-> <<>>, original_name |-> TitleUp,
                               first_air_date |-> <<"2","0","0","1","-","0","1","-","0","1">>]>>]}

\* raw answers of the season endpoint
TmdbSeasonAnswers ==
  {[ok |-> FALSE, hasEpisodes |-> FALSE, episodes |-> <<>>],
   [ok |-> TRUE, hasEpisodes |-> TRUE,
    episodes |-> <<[episode_number |-> 1, name |-> TitleJaws],
                   [episode_number |-> 2, name |-> TitleUp]>>],
   [ok |-> TRUE, hasEpisodes |-> TRUE,
    episodes |-> <<[episode_number |-> 1, name |-> TitleJaws]>>],
   [ok |-> TRUE, hasEpisodes |-> TRUE,
    episodes |-> <<[episode_number |-> 1, name |-> TitleJaws],
                   [episode_number |-> 2, name |-> <<>>]>>]}

\* answers of getCorrectedShowInfoFromLLM once the service is called
LlmShowAnswers ==
  {NoInfo,
   [ok |-> TRUE, title |-> TitleUp, year |-> JsNum(2001)],
   [ok |-> TRUE, title |-> <<>>, year |-> JsNull],
   [ok |-> TRUE, title |-> <<" ">>, year |-> JsNull]}

\* raw answers of the movie search endpoint
TmdbMovieFailures == {[ok |-> FALSE, results |-> <<>>], [ok |-> TRUE, results |-> <<>>]}
TmdbMovieHits ==
  {[ok |-> TRUE, results |-> <<[title |-> TitleJaws, original_title |-> TitleJaws,
                               release_date |-> <<"1","9","7","5","-","0","6","-","2","0">>]>>],
   [ok |-> TRUE, results |-> <<[title |-> <<>>, original_title |-> TitleUp,
                               release_date |-> <<>>]>>]}

\* answers of getCorrectedMovieInfoFromLLM once the service is called: a
\* schema-valid object (title: z.string(), year optional) or a failure
LlmMovieAnswers ==
  {NoInfo,
   [ok |-> TRUE, title |-> TitleJaws, year |-> JsNum(1975)],
   [ok |-> TRUE, title |-> <<>>, year |-> JsNum(1975)],
   [ok |-> TRUE, title |-> TitleUp, year |-> JsNull]}

\* answers to prompt(): x stands for any other input, including none
Answers == {"y", "n", "a", "s", "q", "x"}

\* largest number of files in the library at the start
MaxFiles == 3

\* largest number of files in the library of an interactive session
MaxInteractiveFiles == 2

\* largest number of files in a music library at the start
MaxMusicFiles == 2

\* largest number of file-system operations that fail
MaxFaults == 1

VARIABLES
  cfg,                        \* category, isDryRun, isInteractive, apiKey, llmKey, wordFile
  wordListSet,                \* filenameParser.ts module state: loaded flag and words
  loc,                        \* file -> its current path (<<>> when not on disk)
  dirs,                       \* the directories that exist
  run,                        \* 1 first invocation, 2 the same again, 3 for real after a dry run
  files,                      \* the list handed over by the scanner
  idx,                        \* position of the for loop in files
  pc,                         \* where the organizer is suspended
  confirmAllCurrentCategory,
  skipAllCurrentCategory,
  movedFiles,
  problematicFiles,
  skippedFilePathsDueToMetadataUncertainty,
  fr,                         \* local variables of the current loop iteration
  tmdbMemo,                   \* search answers of the provider so far, by query
  llmMemo,                    \* LLM answers given so far, by request
  seasonMemo,                 \* details the provider gave so far, by season or release
  hist,                       \* per processed file: what was called and done
  faults,                     \* file-system operations that failed so far
  preview                     \* what the dry run before this run announced, by file

vars == <<cfg, wordListSet, loc, dirs, run, files, idx, pc,
          confirmAllCurrentCategory, skipAllCurrentCategory, movedFiles,
          problematicFiles, skippedFilePathsDueToMetadataUncertainty,
          fr, tmdbMemo, llmMemo, seasonMemo, hist, faults, preview>>

worldVars == <<cfg, run, files, preview>>
fsVars == <<loc, dirs>>
flagVars == <<confirmAllCurrentCategory, skipAllCurrentCategory>>
countVars == <<movedFiles, problematicFiles, skippedFilePathsDueToMetadataUncertainty>>
memoVars == <<tmdbMemo, llmMemo, seasonMemo, faults>>
askVars == <<tmdbMemo, llmMemo, seasonMemo>>

FileIds == DOMAIN loc
OnDisk == {f \in FileIds : loc[f] # <<>>}
FileAt(p) == CHOOSE f \in FileIds : loc[f] = p

\* fs.access(p) resolves (anything exists at p) or rejects with ENOENT
Exists(p) == p \in dirs \/ \E f \in FileIds : loc[f] = p

\* the scanner's list: every media file under sourceDirectory
RECURSIVE ScanFrom(_, _)
ScanFrom(l, f) ==
  IF f > Len(l) THEN <<>>
  ELSE (IF l[f] # <<>> THEN <<l[f]>> ELSE <<>>) \o ScanFrom(l, f + 1)
scanDirectory(l) == ScanFrom(l, 1)

NoFrame == [k |-> "none"]

\* the _dup_N candidate next to a target path
DupOf(target, n) ==
  PathJoin(Dirname(target), DupFileName(Basename(target), Extname(Basename(target)), n))

\* a target of each category that a library may find taken: the path the
\* files named tobe.2009.mkv, tobe.S01E02.mkv and a.mp3 are moved to when no
\* service corrects their names
CrowdedTarget(category) ==
  IF category = "shows"
  THEN <<Root, <<"t","o","b","e"," ","(","n","u","l","l",")">>,
         <<"S","e","a","s","o","n"," ","0","1">>,
         <<"t","o","b","e"," ","-"," ","S","0","1","E","0","2">> \o Ext>>
  ELSE IF category = "music" THEN <<Root, ArtistAb, TitleJaws, TrackFileName>>
  ELSE <<Root, NameToBeCanon, NameToBeCanon \o Ext>>

\* a library where the target and every one of its _dup_1 ... _dup_100
\* candidates is taken (by directories, which the scan does not list)
Crowd(target) ==
  Ancestors(Dirname(target)) \cup {target}
    \cup {DupOf(target, n) : n \in 1..MaxDupAttempts}

\* a crowded library holds at most this many media files
MaxCrowdedFiles == 2

Configs ==
  {[category |-> c, isDryRun |-> d, isInteractive |-> i, apiKey |-> a, llmKey |-> l, wordFile |-> w] :
     c \in {"movies", "shows", "music"}, d \in BOOLEAN, i \in BOOLEAN, a \in BOOLEAN, l \in BOOLEAN,
     w \in {WordFile, {}}}

Init ==
  /\ cfg \in {c \in Configs :
                /\ ~(c.isDryRun /\ c.isInteractive)
                /\ IF c.category = "music" THEN ~c.apiKey /\ c.wordFile = {}
                   ELSE c.llmKey => (c.apiKey /\ c.wordFile = WordFile)}
  /\ \E present \in SUBSET (1..Len(Catalogue(cfg.category))) :
       /\ Cardinality(present) \in
             1..(IF cfg.category = "music" THEN MaxMusicFiles
                 ELSE IF cfg.isInteractive THEN MaxInteractiveFiles ELSE MaxFiles)
       /\ loc = [f \in 1..Len(Catalogue(cfg.category)) |->
                   IF f \in present THEN Catalogue(cfg.category)[f].path ELSE <<>>]
  /\ \E crowded \in BOOLEAN :
       /\ crowded => /\ ~cfg.isInteractive /\ ~cfg.isDryRun /\ ~cfg.apiKey
                     /\ Cardinality(OnDisk) <= MaxCrowdedFiles
                     /\ \A f \in OnDisk : loc[f] \notin Crowd(CrowdedTarget(cfg.category))
       /\ dirs = UNION {Ancestors(Dirname(loc[f])) : f \in OnDisk}
                   \cup (IF crowded THEN Crowd(CrowdedTarget(cfg.category)) ELSE {})
  /\ wordListSet = [loaded |-> FALSE, words |-> {}, reads |-> 0]
  /\ run = 1
  /\ files = scanDirectory(loc)
  /\ idx = 1
  /\ pc = "start"
  /\ confirmAllCurrentCategory = FALSE
  /\ skipAllCurrentCategory = FALSE
  /\ movedFiles = 0
  /\ problematicFiles = <<>>
  /\ skippedFilePathsDueToMetadataUncertainty = <<>>
  /\ fr = NoFrame
  /\ tmdbMemo = {}
  /\ llmMemo = {}
  /\ seasonMemo = {}
  /\ hist = <<>>
  /\ faults = 0
  /\ preview = {}

-----------------------------------------------------------------------------
(* Steps shared by the three organizers.                                   *)

getWordListRetriesEmpty(w) ==
  IF w.loaded /\ w.words # {} THEN w
  ELSE [loaded |-> TRUE, words |-> cfg.wordFile, reads |-> w.reads + 1]

\* getWordList(): reads 20k.txt on the first call only
getWordList(w) ==
  IF w.loaded THEN w
  ELSE [loaded |-> TRUE, words |-> cfg.wordFile, reads |-> w.reads + 1]

\* what is remembered about one file of the list
NewHist(path) ==
  [run |-> run, path |-> path, calls |-> <<>>, state |-> "LocalOnly",
   title |-> <<>>, year |-> JsUndef, prov |-> NoInfo, llm |-> NoInfo,
   meta |-> NoMeta, aggressive |-> FALSE, target |-> <<>>, mkdir |-> FALSE, probes |-> <<>>,
   made |-> {}, asked |-> <<>>, dest |-> <<>>, destExisted |-> FALSE, reported |-> <<>>, end |-> "open"]

\* the record of the file being processed
Cur == hist[Len(hist)]

\* of the files already dealt with, only where they came from and went is kept
Settled(h) ==
  [i \in 1..Len(h) |->
     [NewHist(h[i].path) EXCEPT !.run = h[i].run, !.target = h[i].target, !.dest = h[i].dest,
                                !.destExisted = h[i].destExisted, !.asked = h[i].asked,
                                !.reported = h[i].reported, !.end = h[i].end]]

\* the answer the user typed at a prompt, remembered with the file it was asked for
Answered(h, answer) == [h EXCEPT ![Len(h)].asked = Append(@, answer)]

\* `continue`: on to the next file of the list
Continue(h) ==
  /\ idx' = idx + 1
  /\ pc' = "loop"
  /\ fr' = NoFrame
  /\ hist' = h

QuitGoesOnWithNextFile(h) ==
  /\ idx' = idx + 1
  /\ pc' = "loop"
  /\ fr' = NoFrame
  /\ hist' = h

\* `return` out of the organizer (the user quits)
Quit(h) ==
  /\ idx' = idx
  /\ pc' = "done"
  /\ fr' = NoFrame
  /\ hist' = h

\* the provider answers a query the way it answered it before
TmdbMovieChoices(q) ==
  LET all == IF Len(q.title) = 0 THEN TmdbMovieFailures
             ELSE TmdbMovieFailures \cup TmdbMovieHits
  IN IF \E m \in tmdbMemo : m.q = q
     THEN {raw \in all : \E m \in tmdbMemo : m.q = q /\ m.ans = fetchTmdbMovieMetadata(raw)}
     ELSE all

\* the provider's answers to query q, each with the query
TmdbMovieAsks(q) == {[q |-> q, raw |-> raw] : raw \in TmdbMovieChoices(q)}

\* the LLM answers a request the way it answered it before
LlmMovieAsks(q) ==
  IF \E m \in llmMemo : m.q = q THEN {m \in llmMemo : m.q = q}
  ELSE {[q |-> q, ans |-> a] : a \in LlmMovieAnswers}

\* an operation on the file system succeeds, or fails while failures are left
\* (failures are explored in the libraries that are not crowded)
FsOutcomes ==
  IF faults < MaxFaults /\ CrowdedTarget(cfg.category) \notin dirs THEN BOOLEAN ELSE {TRUE}

\* fs.rename(src, dst): the file at src is at dst afterwards, replacing what was there
Renamed(src, dst) ==
  [f \in FileIds |-> IF loc[f] = src THEN dst
                      ELSE IF loc[f] = dst THEN <<>> ELSE loc[f]]

-----------------------------------------------------------------------------
(* movieOrganizer.ts: organizeMovies.                                      *)

MovieStart ==
  /\ pc = "start" /\ cfg.category = "movies"
  /\ wordListSet' = getWordList(wordListSet)
  /\ pc' = IF Len(files) = 0 THEN "done" ELSE "loop"
  /\ UNCHANGED <<worldVars, fsVars, idx, flagVars, countVars, fr, memoVars, hist>>

\* title plus " (year)" when the year is truthy
TitleWithYear(title, year) ==
  title \o (IF Truthy(year) THEN <<" ", "(">> \o Render(year) \o <<")">> ELSE <<>>)

\* the name a directory has when it was made from this parse of its own name
CanonicalDirName(parsedDirAsFile) == TitleWithYear(parsedDirAsFile.title, parsedDirAsFile.year)

\* the already-organized test at the top of the loop body
MovieAlreadyOrganized(originalFilePath, wordList) ==
  /\ Dirname(Dirname(originalFilePath)) = sourceDirectory
  /\ BasenameNoExt(Basename(originalFilePath), Extname(Basename(originalFilePath)))
       = Basename(Dirname(originalFilePath))
  /\ Basename(Dirname(originalFilePath))
       = CanonicalDirName(parseMovieFilename(
             Basename(Dirname(originalFilePath)) \o Extname(Basename(originalFilePath)),
             TRUE, wordList))

MovieFrame(originalFilePath, videoMetadata) ==
  [k |-> "movie",
   originalFilePath |-> originalFilePath,
   fileBasename |-> Basename(originalFilePath),
   fileExt |-> Extname(Basename(originalFilePath)),
   initialTitleFromMetadata |-> videoMetadata.title,
   initialYearFromMetadata |-> videoMetadata.year,
   titleForTmdb |-> <<>>, yearForTmdb |-> JsUndef,
   llmResult |-> NoInfo,
   parsedInfo |-> NoInfo,
   targetMovieDir |-> <<>>, targetFileName |-> <<>>, newTargetFilePath |-> <<>>,
   finalTargetFilePath |-> <<>>, dupCount |-> 0]

\* from the empty-name test down to the first prompt or file operation
MoviePlace(f, h0, sanitizedTargetFolderName) ==
  LET n == Len(h0)
      targetMovieDir == PathJoin(sourceDirectory, sanitizedTargetFolderName)
      targetFileName == sanitizedTargetFolderName \o f.fileExt
      newTargetFilePath == PathJoin(PathJoin(sourceDirectory, sanitizedTargetFolderName),
                                    sanitizedTargetFolderName \o f.fileExt)
      h == [h0 EXCEPT ![n].title = f.parsedInfo.title, ![n].year = f.parsedInfo.year,
                      ![n].target = IF Len(sanitizedTargetFolderName) = 0 THEN <<>>
                                    ELSE newTargetFilePath]
  IN IF Len(sanitizedTargetFolderName) = 0
     THEN Continue([h EXCEPT ![n].end = "invalid", ![n].state = "Skipped"])
     ELSE IF f.originalFilePath = newTargetFilePath
     THEN Continue([h EXCEPT ![n].end = "inplace"])
     ELSE IF skipAllCurrentCategory
     THEN Continue([h EXCEPT ![n].end = "skipall"])
     ELSE IF ~cfg.isDryRun
     THEN /\ idx' = idx
          /\ pc' = IF cfg.isInteractive /\ ~confirmAllCurrentCategory
                   THEN "m_prompt_dir" ELSE "m_mkdir"
          /\ fr' = [f EXCEPT !.targetMovieDir = targetMovieDir,
                             !.targetFileName = targetFileName,
                             !.newTargetFilePath = newTargetFilePath,
                             !.finalTargetFilePath = newTargetFilePath]
          /\ hist' = h
     ELSE Continue([h EXCEPT ![n].end = "dryrun", ![n].reported = newTargetFilePath])

\* the computation of targetFolderName and its sanitization, then the rest
MoviePathStage(f, h0) ==
  MoviePlace(f, h0, SanitizeFolderName(TitleWithYear(f.parsedInfo.title, f.parsedInfo.year)))

AuthoritativeIdentityKeepsSeed(f, tmdbInfo) ==
  [f EXCEPT !.parsedInfo = [ok |-> TRUE, title |-> f.titleForTmdb, year |-> f.yearForTmdb]]

\* parsedInfo = { title: tmdbInfo.title, year: tmdbInfo.year }
AuthoritativeIdentity(f, tmdbInfo) == [f EXCEPT !.parsedInfo = tmdbInfo]

LlmIdentityDropsYear(f, llmResult) ==
  [f EXCEPT !.parsedInfo = [ok |-> TRUE, title |-> llmResult.title, year |-> JsUndef]]

\* parsedInfo = { title: llmResult.title, year: llmResult.year }
LlmIdentity(f, llmResult) ==
  [f EXCEPT !.parsedInfo = [ok |-> TRUE, title |-> llmResult.title, year |-> llmResult.year]]

LocalIdentityGentleParse(f, wordList) ==
  IF Truthy(f.initialTitleFromMetadata)
  THEN [f EXCEPT !.parsedInfo = [ok |-> TRUE, title |-> f.initialTitleFromMetadata.s,
                                 year |-> f.initialYearFromMetadata]]
  ELSE [f EXCEPT !.parsedInfo = [ok |-> TRUE] @@ parseMovieFilename(f.fileBasename, FALSE, wordList)]

\* without provider: the embedded title and year, else the fully segmented filename parse
LocalIdentity(f, wordList) ==
  IF Truthy(f.initialTitleFromMetadata)
  THEN [f EXCEPT !.parsedInfo = [ok |-> TRUE, title |-> f.initialTitleFromMetadata.s,
                                 year |-> f.initialYearFromMetadata]]
  ELSE [f EXCEPT !.parsedInfo = [ok |-> TRUE] @@ parseMovieFilename(f.fileBasename, TRUE, wordList)]

\* titleForTmdb / yearForTmdb: the embedded title and year, else the gentle filename parse
SeedForTmdb(f, parsedFromFile) ==
  IF Truthy(f.initialTitleFromMetadata)
  THEN [f EXCEPT !.titleForTmdb = f.initialTitleFromMetadata.s,
                 !.yearForTmdb = f.initialYearFromMetadata]
  ELSE [f EXCEPT !.titleForTmdb = parsedFromFile.title, !.yearForTmdb = parsedFromFile.year]

\* what getCorrectedMovieInfoFromLLM is given: the file name and the parse of it
LlmMovieQuery(filename, parsedFromFileForLlm) ==
  [filename |-> filename, title |-> parsedFromFileForLlm.title,
   year |-> parsedFromFileForLlm.year]

\* loop head: the already-organized test, the embedded metadata, the choice of the seed
MovieBegin ==
  /\ pc = "loop" /\ cfg.category = "movies" /\ idx <= Len(files)
  /\ LET originalFilePath == files[idx]
         videoMetadata == Catalogue(cfg.category)[FileAt(originalFilePath)].meta
         h == Append(Settled(hist), [NewHist(originalFilePath) EXCEPT !.meta = videoMetadata])
         n == Len(h)
         f == MovieFrame(originalFilePath, videoMetadata)
     IN IF MovieAlreadyOrganized(originalFilePath, wordListSet.words)
        THEN Continue([h EXCEPT ![n].end = "organized"])
        ELSE IF cfg.apiKey
        THEN /\ idx' = idx
             /\ pc' = "m_tmdb1"
             /\ fr' = SeedForTmdb(f, parseMovieFilename(f.fileBasename, FALSE,
                                                        wordListSet.words))
             /\ hist' = h
        ELSE MoviePathStage(LocalIdentity(f, wordListSet.words),
                            [h EXCEPT ![n].aggressive = ~Truthy(f.initialTitleFromMetadata)])
  /\ UNCHANGED <<worldVars, wordListSet, fsVars, flagVars, countVars, memoVars>>

MovieSkipFallsBackToFilename(h) ==
  /\ UNCHANGED skippedFilePathsDueToMetadataUncertainty
  /\ MoviePathStage([fr EXCEPT !.parsedInfo = [ok |-> TRUE]
                        @@ parseMovieFilename(fr.fileBasename, TRUE, wordListSet.words)],
                    [h EXCEPT ![Len(h)].aggressive = TRUE])

\* `skippedFilePathsDueToMetadataUncertainty.push(originalFilePath); continue`
MovieSkip(h) ==
  /\ skippedFilePathsDueToMetadataUncertainty' =
        Append(skippedFilePathsDueToMetadataUncertainty, fr.originalFilePath)
  /\ Continue([h EXCEPT ![Len(h)].end = "skipped", ![Len(h)].state = "Skipped"])

\* the first fetchTmdbMovieMetadata call, with the seed
MovieTmdb1 ==
  /\ pc = "m_tmdb1"
  /\ LET n == Len(hist)
     IN \E ask \in TmdbMovieAsks(TmdbMovieQuery(fr.titleForTmdb, fr.yearForTmdb)) :
          LET tmdbInfo == fetchTmdbMovieMetadata(ask.raw)
              h == [hist EXCEPT ![n].calls = Append(@, "tmdb")]
          IN /\ tmdbMemo' = tmdbMemo \cup {[q |-> ask.q, ans |-> tmdbInfo]}
             /\ IF tmdbInfo.ok
                THEN /\ MoviePathStage(AuthoritativeIdentity(fr, tmdbInfo),
                                       [h EXCEPT ![n].state = "AuthoritativeConfirmed",
                                                 ![n].prov = tmdbInfo])
                     /\ UNCHANGED skippedFilePathsDueToMetadataUncertainty
                ELSE IF cfg.llmKey
                THEN /\ idx' = idx /\ pc' = "m_llm" /\ fr' = fr /\ hist' = h
                     /\ UNCHANGED skippedFilePathsDueToMetadataUncertainty
                ELSE MovieSkip(h)
  /\ UNCHANGED <<worldVars, wordListSet, fsVars, flagVars, movedFiles, problematicFiles, llmMemo, seasonMemo, faults>>

MovieLlmHintsFromSeed ==
  /\ pc = "m_llm"
  /\ LET n == Len(hist)
     IN \E ask \in LlmMovieAsks([filename |-> fr.fileBasename, title |-> fr.titleForTmdb,
                                 year |-> fr.yearForTmdb]) :
          LET llmResult == ask.ans
              h == [hist EXCEPT ![n].calls = Append(@, "llm"), ![n].llm = llmResult]
          IN /\ llmMemo' = llmMemo \cup {ask}
             /\ IF llmResult.ok
                THEN /\ idx' = idx /\ pc' = "m_tmdb2" /\ hist' = h
                     /\ fr' = [fr EXCEPT !.llmResult = llmResult]
                     /\ UNCHANGED skippedFilePathsDueToMetadataUncertainty
                ELSE MovieSkip(h)
  /\ UNCHANGED <<worldVars, wordListSet, fsVars, flagVars, movedFiles, problematicFiles, tmdbMemo, seasonMemo, faults>>

\* getCorrectedMovieInfoFromLLM, always with the gentle filename parse as hints
MovieLlm ==
  /\ pc = "m_llm"
  /\ LET n == Len(hist)
     IN \E ask \in LlmMovieAsks(LlmMovieQuery(fr.fileBasename,
                    parseMovieFilename(fr.fileBasename, FALSE, wordListSet.words))) :
          LET llmResult == ask.ans
              h == [hist EXCEPT ![n].calls = Append(@, "llm"), ![n].llm = llmResult]
          IN /\ llmMemo' = llmMemo \cup {ask}
             /\ IF llmResult.ok
                THEN /\ idx' = idx /\ pc' = "m_tmdb2" /\ hist' = h
                     /\ fr' = [fr EXCEPT !.llmResult = llmResult]
                     /\ UNCHANGED skippedFilePathsDueToMetadataUncertainty
                ELSE MovieSkip(h)
  /\ UNCHANGED <<worldVars, wordListSet, fsVars, flagVars, movedFiles, problematicFiles, tmdbMemo, seasonMemo, faults>>

\* the second fetchTmdbMovieMetadata call, with the LLM's suggestion
MovieTmdb2 ==
  /\ pc = "m_tmdb2"
  /\ LET llmResult == fr.llmResult
         n == Len(hist)
     IN \E ask \in TmdbMovieAsks(TmdbMovieQuery(llmResult.title,
                    IF llmResult.year.k = "null" THEN JsUndef ELSE llmResult.year)) :
          LET tmdbInfoFromLLM == fetchTmdbMovieMetadata(ask.raw)
              h == [hist EXCEPT ![n].calls = Append(@, "tmdb")]
          IN /\ tmdbMemo' = tmdbMemo \cup {[q |-> ask.q, ans |-> tmdbInfoFromLLM]}
             /\ IF tmdbInfoFromLLM.ok
                THEN MoviePathStage(AuthoritativeIdentity(fr, tmdbInfoFromLLM),
                                    [h EXCEPT ![n].state = "AuthoritativeConfirmed",
                                              ![n].prov = tmdbInfoFromLLM])
                ELSE MoviePathStage(LlmIdentity(fr, llmResult),
                                    [h EXCEPT ![n].state = "LlmFallback"])
  /\ UNCHANGED <<worldVars, wordListSet, fsVars, flagVars, countVars, llmMemo, seasonMemo, faults>>

\* prompt "Create directory ...? (y/n/a/s/q)"
MoviePromptDir ==
  /\ pc = "m_prompt_dir"
  /\ \E dirActionPrompt \in Answers :
       LET n == Len(hist) IN
       /\ confirmAllCurrentCategory' = (confirmAllCurrentCategory \/ dirActionPrompt = "a")
       /\ skipAllCurrentCategory' = (skipAllCurrentCategory \/ dirActionPrompt = "s")
       /\ IF dirActionPrompt \in {"a", "y"}
          THEN /\ idx' = idx /\ pc' = "m_mkdir" /\ fr' = fr
               /\ hist' = Answered(hist, dirActionPrompt)
          ELSE IF dirActionPrompt = "q"
          THEN Quit([Answered(hist, dirActionPrompt) EXCEPT ![n].end = "quit"])
          ELSE Continue([Answered(hist, dirActionPrompt) EXCEPT ![n].end = "declined"])
  /\ UNCHANGED <<worldVars, wordListSet, fsVars, countVars, memoVars>>

\* mkdir(targetMovieDir, {recursive: true}); a failure lands in the catch of the iteration
MovieMkdir ==
  /\ pc = "m_mkdir"
  /\ \E ok \in FsOutcomes :
       LET n == Len(hist) IN
       /\ faults' = IF ok THEN faults ELSE faults + 1
       /\ IF ok
          THEN /\ dirs' = dirs \cup Ancestors(fr.targetMovieDir)
               /\ idx' = idx /\ fr' = fr
               /\ hist' = [hist EXCEPT ![n].mkdir = TRUE,
                                        ![n].made = Ancestors(fr.targetMovieDir) \ dirs]
               /\ pc' = IF cfg.isInteractive /\ ~confirmAllCurrentCategory
                        THEN "m_prompt_move" ELSE "m_access"
          ELSE /\ dirs' = dirs
               /\ Continue([hist EXCEPT ![n].end = "failed"])
  /\ UNCHANGED <<worldVars, wordListSet, loc, flagVars, countVars, askVars>>

\* prompt "Move file ...? (y/n/a/s/q)"
MoviePromptMove ==
  /\ pc = "m_prompt_move"
  /\ \E fileActionPrompt \in Answers :
       LET n == Len(hist) IN
       /\ confirmAllCurrentCategory' = (confirmAllCurrentCategory \/ fileActionPrompt = "a")
       /\ skipAllCurrentCategory' = (skipAllCurrentCategory \/ fileActionPrompt = "s")
       /\ IF fileActionPrompt \in {"a", "y"}
          THEN /\ idx' = idx /\ pc' = "m_access" /\ fr' = fr
               /\ hist' = Answered(hist, fileActionPrompt)
          ELSE IF fileActionPrompt = "q"
          THEN Quit([Answered(hist, fileActionPrompt) EXCEPT ![n].end = "quit"])
          ELSE Continue([Answered(hist, fileActionPrompt) EXCEPT ![n].end = "declined"])
  /\ UNCHANGED <<worldVars, wordListSet, fsVars, countVars, memoVars>>

MovieAccessAssumesFree ==
  /\ pc = "m_access"
  /\ pc' = "m_rename"
  /\ fr' = [fr EXCEPT !.dupCount = 0]
  /\ hist' = [hist EXCEPT ![Len(hist)].probes = Append(@, 0)]
  /\ UNCHANGED <<worldVars, wordListSet, fsVars, idx, flagVars, countVars, memoVars>>

MovieAccessResetsConfirmAll ==
  /\ pc = "m_access"
  /\ LET targetFileExists == Exists(fr.finalTargetFilePath) IN
       /\ pc' = IF targetFileExists THEN "m_probe" ELSE "m_rename"
       /\ fr' = [fr EXCEPT !.dupCount = IF targetFileExists THEN 1 ELSE 0]
       /\ hist' = [hist EXCEPT ![Len(hist)].probes = Append(@, 0)]
  /\ confirmAllCurrentCategory' = FALSE
  /\ UNCHANGED <<worldVars, wordListSet, fsVars, idx, skipAllCurrentCategory, countVars, memoVars>>

\* access(finalTargetFilePath): does the canonical target exist?
MovieAccess ==
  /\ pc = "m_access"
  /\ LET targetFileExists == Exists(fr.finalTargetFilePath) IN
       /\ pc' = IF targetFileExists THEN "m_probe" ELSE "m_rename"
       /\ fr' = [fr EXCEPT !.dupCount = IF targetFileExists THEN 1 ELSE 0]
       /\ hist' = [hist EXCEPT ![Len(hist)].probes = Append(@, 0)]
  /\ UNCHANGED <<worldVars, wordListSet, fsVars, idx, flagVars, countVars, memoVars>>

MovieProbeTakesFirstSuffix ==
  /\ pc = "m_probe"
  /\ idx' = idx /\ pc' = "m_rename"
  /\ hist' = [hist EXCEPT ![Len(hist)].probes = Append(@, fr.dupCount)]
  /\ fr' = [fr EXCEPT !.finalTargetFilePath =
                        PathJoin(fr.targetMovieDir,
                                 DupFileName(fr.targetFileName, fr.fileExt, fr.dupCount))]
  /\ UNCHANGED <<worldVars, wordListSet, fsVars, flagVars, countVars, memoVars>>

\* one turn of the while (true) loop over the _dup_N candidates
MovieProbe ==
  /\ pc = "m_probe"
  /\ LET potentialDuplicatePath ==
           PathJoin(fr.targetMovieDir, DupFileName(fr.targetFileName, fr.fileExt, fr.dupCount))
         n == Len(hist)
         h == [hist EXCEPT ![n].probes = Append(@, fr.dupCount)]
     IN IF Exists(potentialDuplicatePath)
        THEN IF fr.dupCount + 1 > MaxDupAttempts
             THEN Continue([h EXCEPT ![n].end = "exhausted"])
             ELSE /\ idx' = idx /\ pc' = "m_probe" /\ hist' = h
                  /\ fr' = [fr EXCEPT !.dupCount = fr.dupCount + 1]
        ELSE /\ idx' = idx /\ pc' = "m_rename" /\ hist' = h
             /\ fr' = [fr EXCEPT !.finalTargetFilePath = potentialDuplicatePath]
  /\ UNCHANGED <<worldVars, wordListSet, fsVars, flagVars, countVars, memoVars>>

MovieRenameNotAwaited ==
  /\ pc = "m_rename"
  /\ faults' = faults
  /\ loc' = loc
  /\ Continue(hist)
  /\ UNCHANGED <<worldVars, wordListSet, dirs, flagVars, countVars, askVars>>

\* rename(originalFilePath, finalTargetFilePath); a failure is logged
MovieRename ==
  /\ pc = "m_rename"
  /\ \E ok \in FsOutcomes :
       LET n == Len(hist) IN
       /\ faults' = IF ok THEN faults ELSE faults + 1
       /\ IF ok
          THEN /\ loc' = Renamed(fr.originalFilePath, fr.finalTargetFilePath)
               /\ Continue([hist EXCEPT ![n].end = "moved", ![n].dest = fr.finalTargetFilePath,
                                         ![n].destExisted = Exists(fr.finalTargetFilePath)])
          ELSE /\ loc' = loc
               /\ Continue([hist EXCEPT ![n].end = "failed"])
  /\ UNCHANGED <<worldVars, wordListSet, dirs, flagVars, countVars, askVars>>

\* the for loop is over
MovieDone ==
  /\ pc = "loop" /\ cfg.category = "movies" /\ idx > Len(files)
  /\ pc' = "done"
  /\ UNCHANGED <<worldVars, wordListSet, fsVars, idx, flagVars, countVars, fr, memoVars, hist>>

-----------------------------------------------------------------------------
(* showOrganizer.ts: organizeShows.                                        *)

\* sanitizeName of showOrganizer.ts
sanitizeName(name) == Trim(ReplaceChars(name, IllegalChars, "_"))

ShowStart ==
  /\ pc = "start" /\ cfg.category = "shows"
  /\ wordListSet' = getWordList(wordListSet)
  /\ pc' = IF Len(files) = 0 THEN "done" ELSE "loop"
  /\ UNCHANGED <<worldVars, fsVars, idx, flagVars, countVars, fr, memoVars, hist>>

ShowFrame(originalFilePath) ==
  [k |-> "show",
   originalFilePath |-> originalFilePath,
   fileBasename |-> Basename(originalFilePath),
   fileExt |-> Extname(Basename(originalFilePath)),
   finalSeriesTitle |-> JsNull, finalSeriesYear |-> JsUndef,
   finalSeasonNumber |-> JsNull, finalEpisodeNumber |-> JsNull,
   finalEpisodeTitle |-> JsNull,
   tmdbSeriesId |-> 0, llmCorrectedShow |-> NoInfo,
   targetSeasonPath |-> <<>>, targetFileName |-> <<>>, newTargetFilePath |-> <<>>,
   finalTargetFilePath |-> <<>>, dupCount |-> 0]

\* v || null for a string, v === undefined ? null : v for a number
OrNull(v) == IF v.k = "undef" \/ (v.k = "str" /\ Len(v.s) = 0) THEN JsNull ELSE v

\* the embedded values, each missing core one supplemented from the file name
SeedFromMetadata(f, m, fnParsed) ==
  IF Truthy(OrNull(m.seriesTitle)) /\ m.seasonNumber.k = "num" /\ m.episodeNumber.k = "num"
  THEN [f EXCEPT !.finalSeriesTitle = m.seriesTitle, !.finalSeriesYear = m.year,
                 !.finalSeasonNumber = m.seasonNumber, !.finalEpisodeNumber = m.episodeNumber,
                 !.finalEpisodeTitle = OrNull(m.episodeTitle)]
  ELSE [f EXCEPT
          !.finalSeriesTitle = IF Truthy(m.seriesTitle) THEN m.seriesTitle
                               ELSE fnParsed.seriesTitle,
          !.finalSeriesYear = IF m.year.k = "undef"
                                 /\ fnParsed.seriesTitle =
                                      (IF Truthy(m.seriesTitle) THEN m.seriesTitle
                                       ELSE fnParsed.seriesTitle)
                              THEN fnParsed.year ELSE m.year,
          !.finalSeasonNumber = IF m.seasonNumber.k = "num" THEN m.seasonNumber
                                ELSE fnParsed.seasonNumber,
          !.finalEpisodeNumber = IF m.episodeNumber.k = "num" THEN m.episodeNumber
                                 ELSE fnParsed.episodeNumber,
          !.finalEpisodeTitle = IF Truthy(m.episodeTitle) THEN m.episodeTitle
                                ELSE fnParsed.episodeTitle]

\* step 1 of the loop body: embedded metadata preferred, then the file name
ShowSeed(f, videoMetadata, fnParsed) ==
  IF videoMetadata.ok THEN SeedFromMetadata(f, videoMetadata, fnParsed)
  ELSE [f EXCEPT !.finalSeriesTitle = fnParsed.seriesTitle, !.finalSeriesYear = fnParsed.year,
                 !.finalSeasonNumber = fnParsed.seasonNumber,
                 !.finalEpisodeNumber = fnParsed.episodeNumber,
                 !.finalEpisodeTitle = fnParsed.episodeTitle]

\* the end of the iteration for a file: continue, with the lists and counters updated
ShowEnd(h, how, skipIt, moved) ==
  /\ Continue([h EXCEPT ![Len(h)].end = how])
  /\ skippedFilePathsDueToMetadataUncertainty' =
       IF skipIt THEN Append(skippedFilePathsDueToMetadataUncertainty, h[Len(h)].path)
       ELSE skippedFilePathsDueToMetadataUncertainty
  /\ movedFiles' = IF moved THEN movedFiles + 1 ELSE movedFiles

\* the iteration goes on at the next await
ShowGoto(where, f, h) ==
  /\ idx' = idx /\ pc' = where /\ fr' = f /\ hist' = h
  /\ UNCHANGED <<skippedFilePathsDueToMetadataUncertainty, movedFiles>>

ShowSkipUnrecorded(h) == ShowEnd([h EXCEPT ![Len(h)].state = "Skipped"], "skipped", FALSE, FALSE)

\* the file is given up for lack of a trustworthy identity
ShowSkip(h) == ShowEnd([h EXCEPT ![Len(h)].state = "Skipped"], "skipped", TRUE, FALSE)

\* folder and file names of step 4
ShowNames(f) ==
  [seriesFolderName |->
     sanitizeName(f.finalSeriesTitle.s)
       \o (IF f.finalSeriesYear.k # "undef"
           THEN <<" ", "(">> \o Render(f.finalSeriesYear) \o <<")">> ELSE <<>>),
   seasonFolderName |->
     <<"S","e","a","s","o","n"," ">> \o PadStart2(NumToStr(f.finalSeasonNumber.n)),
   targetFileName |->
     sanitizeName(f.finalSeriesTitle.s) \o <<" ", "-", " ", "S">>
       \o PadStart2(NumToStr(f.finalSeasonNumber.n)) \o <<"E">>
       \o PadStart2(NumToStr(f.finalEpisodeNumber.n))
       \o (IF Truthy(f.finalEpisodeTitle)
           THEN <<" ", "-", " ">> \o sanitizeName(f.finalEpisodeTitle.s) ELSE <<>>)
       \o f.fileExt]

ShowOperateIgnoresDryRun(f, h, proceedWithOperations) ==
  IF ~proceedWithOperations THEN ShowEnd(h, "declined", TRUE, FALSE)
  ELSE ShowGoto("s_mkdir", f, h)

\* the dry-run block and the branch on proceedWithOperations of the actual run
ShowOperate(f, h, proceedWithOperations) ==
  IF ~proceedWithOperations THEN ShowEnd(h, "declined", TRUE, FALSE)
  ELSE IF cfg.isDryRun
  THEN ShowEnd([h EXCEPT ![Len(h)].reported =
                   IF Exists(f.newTargetFilePath)
                   THEN PathJoin(f.targetSeasonPath, DupFileName(f.targetFileName, f.fileExt, 1))
                   ELSE f.newTargetFilePath],
               "dryrun", FALSE, TRUE)
  ELSE ShowGoto("s_mkdir", f, h)

ShowPlaceIgnoresSkipAll(f, h, names, targetSeasonPath) ==
  IF \/ /\ Dirname(Dirname(f.originalFilePath)) # sourceDirectory
        /\ Basename(Dirname(Dirname(f.originalFilePath))) = names.seriesFolderName
        /\ Basename(Dirname(f.originalFilePath)) = names.seasonFolderName
        /\ f.fileBasename = names.targetFileName
     \/ f.originalFilePath = PathJoin(targetSeasonPath, names.targetFileName)
  THEN ShowEnd(h, "organized", FALSE, FALSE)
  ELSE IF cfg.isInteractive /\ ~confirmAllCurrentCategory
  THEN ShowGoto("s_prompt",
                [f EXCEPT !.targetSeasonPath = targetSeasonPath,
                          !.targetFileName = names.targetFileName,
                          !.newTargetFilePath = PathJoin(targetSeasonPath, names.targetFileName),
                          !.finalTargetFilePath = PathJoin(targetSeasonPath, names.targetFileName)],
                h)
  ELSE ShowOperate([f EXCEPT !.targetSeasonPath = targetSeasonPath,
                             !.targetFileName = names.targetFileName,
                             !.newTargetFilePath = PathJoin(targetSeasonPath, names.targetFileName),
                             !.finalTargetFilePath = PathJoin(targetSeasonPath, names.targetFileName)],
                   h, TRUE)

\* the already-organized tests, the skip-all test, then the prompt or the operations
ShowPlace(f, h, names, targetSeasonPath) ==
  IF \/ /\ Dirname(Dirname(f.originalFilePath)) # sourceDirectory
        /\ Basename(Dirname(Dirname(f.originalFilePath))) = names.seriesFolderName
        /\ Basename(Dirname(f.originalFilePath)) = names.seasonFolderName
        /\ f.fileBasename = names.targetFileName
     \/ f.originalFilePath = PathJoin(targetSeasonPath, names.targetFileName)
  THEN ShowEnd(h, "organized", FALSE, FALSE)
  ELSE IF skipAllCurrentCategory THEN ShowEnd(h, "skipall", FALSE, FALSE)
  ELSE IF cfg.isInteractive /\ ~confirmAllCurrentCategory
  THEN ShowGoto("s_prompt",
                [f EXCEPT !.targetSeasonPath = targetSeasonPath,
                          !.targetFileName = names.targetFileName,
                          !.newTargetFilePath = PathJoin(targetSeasonPath, names.targetFileName),
                          !.finalTargetFilePath = PathJoin(targetSeasonPath, names.targetFileName)],
                h)
  ELSE ShowOperate([f EXCEPT !.targetSeasonPath = targetSeasonPath,
                             !.targetFileName = names.targetFileName,
                             !.newTargetFilePath = PathJoin(targetSeasonPath, names.targetFileName),
                             !.finalTargetFilePath = PathJoin(targetSeasonPath, names.targetFileName)],
                   h, TRUE)

ShowPlaceNamed(f, h, names) ==
  ShowPlace(f, [h EXCEPT ![Len(h)].title = f.finalSeriesTitle.s,
                         ![Len(h)].year = f.finalSeriesYear,
                         ![Len(h)].target =
                            PathJoin(PathJoin(PathJoin(sourceDirectory, names.seriesFolderName),
                                              names.seasonFolderName), names.targetFileName)],
            names,
            PathJoin(PathJoin(sourceDirectory, names.seriesFolderName), names.seasonFolderName))

\* step 4 onwards
ShowPathStage(f, h) == ShowPlaceNamed(f, h, ShowNames(f))

\* the provider answers a show search the way it answered it before
TmdbShowAsks(q) ==
  LET all == {[q |-> q, raw |-> raw] :
                raw \in IF Len(q.title) = 0 THEN TmdbShowFailures
                        ELSE TmdbShowFailures \cup TmdbShowHits}
  IN IF \E m \in tmdbMemo : m.q = q
     THEN {a \in all : \E m \in tmdbMemo : m.q = q /\ m.ans = searchTmdbShow(a.raw)}
     ELSE all

LlmShowAsks(q) ==
  IF \E m \in llmMemo : m.q = q THEN {m \in llmMemo : m.q = q}
  ELSE {[q |-> q, ans |-> a] : a \in LlmShowAnswers}

TmdbSeasonAsks(q) ==
  IF \E m \in seasonMemo : m.q = q THEN {m \in seasonMemo : m.q = q}
  ELSE {[q |-> q, raw |-> raw] : raw \in TmdbSeasonAnswers}

ShowAfterSearchAlwaysFetchesSeason(f, h) ==
  IF ~Truthy(f.finalSeriesTitle) \/ f.finalSeasonNumber.k = "null"
     \/ f.finalEpisodeNumber.k = "null"
  THEN ShowSkip(h)
  ELSE IF cfg.apiKey THEN ShowGoto("s_season", f, h)
  ELSE ShowPathStage(f, h)

\* the second test for missing critical information, then step 3 or step 4
ShowAfterSearch(f, h) ==
  IF ~Truthy(f.finalSeriesTitle) \/ f.finalSeasonNumber.k = "null"
     \/ f.finalEpisodeNumber.k = "null"
  THEN ShowSkip(h)
  ELSE IF f.tmdbSeriesId # 0 /\ cfg.apiKey THEN ShowGoto("s_season", f, h)
  ELSE ShowPathStage(f, h)

ShowSeededSearchesWithoutTitle(f, h) ==
  IF (~Truthy(f.finalSeriesTitle) \/ f.finalSeasonNumber.k = "null"
      \/ f.finalEpisodeNumber.k = "null")
     /\ ~(~Truthy(f.finalSeriesTitle) /\ f.finalSeasonNumber.k # "null"
          /\ f.finalEpisodeNumber.k # "null")
  THEN ShowSkip(h)
  ELSE IF cfg.apiKey THEN ShowGoto("s_search1", f, h)
  ELSE ShowAfterSearch(f, h)

\* the first test for missing information, then the series search or the rest
ShowSeeded(f, h) ==
  IF (~Truthy(f.finalSeriesTitle) \/ f.finalSeasonNumber.k = "null"
      \/ f.finalEpisodeNumber.k = "null")
     /\ ~(~Truthy(f.finalSeriesTitle) /\ f.finalSeasonNumber.k # "null"
          /\ f.finalEpisodeNumber.k # "null")
  THEN ShowSkip(h)
  ELSE IF cfg.apiKey /\ Truthy(f.finalSeriesTitle) THEN ShowGoto("s_search1", f, h)
  ELSE ShowAfterSearch(f, h)

\* loop head: embedded metadata, the seed, the test for missing information
ShowBegin ==
  /\ pc = "loop" /\ cfg.category = "shows" /\ idx <= Len(files)
  /\ ShowSeeded(ShowSeed(ShowFrame(files[idx]),
                         Catalogue(cfg.category)[FileAt(files[idx])].meta,
                         parseShowFilename(Basename(files[idx]), TRUE, wordListSet.words)),
                Append(Settled(hist),
                       [NewHist(files[idx]) EXCEPT
                          !.meta = Catalogue(cfg.category)[FileAt(files[idx])].meta,
                          !.aggressive = TRUE]))
  /\ UNCHANGED <<worldVars, wordListSet, fsVars, flagVars, problematicFiles, memoVars>>

\* tmdbSeriesId, finalSeriesTitle and finalSeriesYear taken from the provider
ShowAuthoritativeIdentity(f, tmdbShowInfo) ==
  [f EXCEPT !.tmdbSeriesId = tmdbShowInfo.id, !.finalSeriesTitle = JsStr(tmdbShowInfo.title),
            !.finalSeriesYear = tmdbShowInfo.year]

\* the LLM suggestion as series name and year, without series id
ShowLlmIdentity(f, llmCorrectedShow) ==
  [f EXCEPT !.tmdbSeriesId = 0, !.finalSeriesTitle = JsStr(llmCorrectedShow.title),
            !.finalSeriesYear = IF llmCorrectedShow.year.k = "null" THEN JsUndef
                                ELSE llmCorrectedShow.year]

\* the first searchTmdbShow call, with the seed title
ShowSearch1 ==
  /\ pc = "s_search1"
  /\ \E ask \in TmdbShowAsks(TmdbShowQuery(fr.finalSeriesTitle.s)) :
       LET tmdbShowInfo == searchTmdbShow(ask.raw)
           n == Len(hist)
           h == [hist EXCEPT ![n].calls = Append(@, "tmdb")]
       IN /\ tmdbMemo' = tmdbMemo \cup {[q |-> ask.q, ans |-> tmdbShowInfo]}
          /\ IF tmdbShowInfo.ok
             THEN ShowAfterSearch(ShowAuthoritativeIdentity(fr, tmdbShowInfo),
                                  [h EXCEPT ![n].state = "AuthoritativeConfirmed",
                                            ![n].prov = tmdbShowInfo])
             ELSE IF cfg.llmKey THEN ShowGoto("s_llm", fr, h)
             ELSE ShowSkip(h)
  /\ UNCHANGED <<worldVars, wordListSet, fsVars, flagVars, problematicFiles,
                 llmMemo, seasonMemo, faults>>

ShowLlmRetriesWithoutAnswer ==
  /\ pc = "s_llm"
  /\ \E ask \in LlmShowAsks([filename |-> fr.fileBasename, title |-> fr.finalSeriesTitle,
                              season |-> fr.finalSeasonNumber,
                              episode |-> fr.finalEpisodeNumber]) :
       LET n == Len(hist)
           h == [hist EXCEPT ![n].calls = Append(@, "llm"), ![n].llm = ask.ans]
       IN /\ llmMemo' = llmMemo \cup {ask}
          /\ ShowGoto("s_search2", [fr EXCEPT !.llmCorrectedShow = ask.ans], h)
  /\ UNCHANGED <<worldVars, wordListSet, fsVars, flagVars, problematicFiles,
                 tmdbMemo, seasonMemo, faults>>

\* getCorrectedShowInfoFromLLM with the seed title, season and episode
ShowLlm ==
  /\ pc = "s_llm"
  /\ \E ask \in LlmShowAsks([filename |-> fr.fileBasename, title |-> fr.finalSeriesTitle,
                              season |-> fr.finalSeasonNumber,
                              episode |-> fr.finalEpisodeNumber]) :
       LET n == Len(hist)
           h == [hist EXCEPT ![n].calls = Append(@, "llm"), ![n].llm = ask.ans]
       IN /\ llmMemo' = llmMemo \cup {ask}
          /\ IF ask.ans.ok /\ Len(ask.ans.title) > 0
             THEN ShowGoto("s_search2", [fr EXCEPT !.llmCorrectedShow = ask.ans], h)
             ELSE ShowSkip(h)
  /\ UNCHANGED <<worldVars, wordListSet, fsVars, flagVars, problematicFiles,
                 tmdbMemo, seasonMemo, faults>>

\* the second searchTmdbShow call, with the LLM's title
ShowSearch2 ==
  /\ pc = "s_search2"
  /\ \E ask \in TmdbShowAsks(TmdbShowQuery(fr.llmCorrectedShow.title)) :
       LET tmdbShowInfo == searchTmdbShow(ask.raw)
           n == Len(hist)
           h == [hist EXCEPT ![n].calls = Append(@, "tmdb")]
       IN /\ tmdbMemo' = tmdbMemo \cup {[q |-> ask.q, ans |-> tmdbShowInfo]}
          /\ IF tmdbShowInfo.ok
             THEN ShowAfterSearch(ShowAuthoritativeIdentity(fr, tmdbShowInfo),
                                  [h EXCEPT ![n].state = "AuthoritativeConfirmed",
                                            ![n].prov = tmdbShowInfo])
             ELSE ShowAfterSearch(ShowLlmIdentity(fr, fr.llmCorrectedShow),
                                  [h EXCEPT ![n].state = "LlmFallback"])
  /\ UNCHANGED <<worldVars, wordListSet, fsVars, flagVars, problematicFiles,
                 llmMemo, seasonMemo, faults>>

ShowEpisodeTitleDropsCarried(f, seasonDetails) ==
  IF seasonDetails.ok
     /\ Len(FindEpisode(seasonDetails.episodes, f.finalEpisodeNumber.n)) > 0
  THEN [f EXCEPT !.finalEpisodeTitle =
                   JsStr(FindEpisode(seasonDetails.episodes, f.finalEpisodeNumber.n))]
  ELSE [f EXCEPT !.finalEpisodeTitle = JsNull]

\* finalEpisodeTitle = matchedEpisode.name when the season lists the episode with a name
ShowEpisodeTitle(f, seasonDetails) ==
  IF seasonDetails.ok
     /\ Len(FindEpisode(seasonDetails.episodes, f.finalEpisodeNumber.n)) > 0
  THEN [f EXCEPT !.finalEpisodeTitle =
                   JsStr(FindEpisode(seasonDetails.episodes, f.finalEpisodeNumber.n))]
  ELSE f

\* step 3: fetchTmdbSeasonDetails for the series found
ShowSeason ==
  /\ pc = "s_season"
  /\ \E ask \in TmdbSeasonAsks([id |-> fr.tmdbSeriesId, season |-> fr.finalSeasonNumber.n]) :
       /\ seasonMemo' = seasonMemo \cup {ask}
       /\ ShowPathStage(ShowEpisodeTitle(fr, fetchTmdbSeasonDetails(ask.raw)),
                        [hist EXCEPT ![Len(hist)].calls = Append(@, "season")])
  /\ UNCHANGED <<worldVars, wordListSet, fsVars, flagVars, problematicFiles,
                 tmdbMemo, llmMemo, faults>>

\* prompt "Organize ... to ...? (y/n/a/s/q)"
ShowPrompt ==
  /\ pc = "s_prompt"
  /\ \E answer \in Answers :
       /\ confirmAllCurrentCategory' = (confirmAllCurrentCategory \/ answer = "a")
       /\ skipAllCurrentCategory' = (skipAllCurrentCategory \/ answer = "s")
       /\ IF answer = "q"
          THEN /\ Quit([Answered(hist, answer) EXCEPT ![Len(hist)].end = "quit"])
               /\ UNCHANGED <<skippedFilePathsDueToMetadataUncertainty, movedFiles>>
          ELSE ShowOperate(fr, Answered(hist, answer), answer \in {"a", "y"})
  /\ UNCHANGED <<worldVars, wordListSet, fsVars, problematicFiles, memoVars>>

\* mkdir(targetSeasonPath, {recursive: true})
ShowMkdir ==
  /\ pc = "s_mkdir"
  /\ \E ok \in FsOutcomes :
       /\ faults' = IF ok THEN faults ELSE faults + 1
       /\ dirs' = IF ok THEN dirs \cup Ancestors(fr.targetSeasonPath) ELSE dirs
       /\ IF ok THEN ShowGoto("s_access", fr,
                               [hist EXCEPT ![Len(hist)].mkdir = TRUE,
                                            ![Len(hist)].made = Ancestors(fr.targetSeasonPath) \ dirs])
          ELSE ShowEnd(hist, "failed", TRUE, FALSE)
  /\ UNCHANGED <<worldVars, wordListSet, loc, flagVars, problematicFiles, askVars>>

\* access(finalTargetFilePath)
ShowAccess ==
  /\ pc = "s_access"
  /\ ShowGoto(IF Exists(fr.finalTargetFilePath) THEN "s_probe" ELSE "s_rename",
              [fr EXCEPT !.dupCount = IF Exists(fr.finalTargetFilePath) THEN 1 ELSE 0],
              [hist EXCEPT ![Len(hist)].probes = Append(@, 0)])
  /\ UNCHANGED <<worldVars, wordListSet, fsVars, flagVars, problematicFiles, memoVars>>

ShowProbeGivesUpAtFirstTaken ==
  /\ pc = "s_probe"
  /\ LET potentialDuplicatePath ==
           PathJoin(fr.targetSeasonPath, DupFileName(fr.targetFileName, fr.fileExt, fr.dupCount))
         h == [hist EXCEPT ![Len(hist)].probes = Append(@, fr.dupCount)]
     IN IF Exists(potentialDuplicatePath)
        THEN ShowEnd(h, "exhausted", TRUE, FALSE)
        ELSE ShowGoto("s_rename", [fr EXCEPT !.finalTargetFilePath = potentialDuplicatePath], h)
  /\ UNCHANGED <<worldVars, wordListSet, fsVars, flagVars, problematicFiles, memoVars>>

\* one turn of the while (true) loop over the _dup_N candidates
ShowProbe ==
  /\ pc = "s_probe"
  /\ LET potentialDuplicatePath ==
           PathJoin(fr.targetSeasonPath, DupFileName(fr.targetFileName, fr.fileExt, fr.dupCount))
         h == [hist EXCEPT ![Len(hist)].probes = Append(@, fr.dupCount)]
     IN IF Exists(potentialDuplicatePath)
        THEN IF fr.dupCount + 1 > MaxDupAttempts
             THEN ShowEnd(h, "exhausted", TRUE, FALSE)
             ELSE ShowGoto("s_probe", [fr EXCEPT !.dupCount = fr.dupCount + 1], h)
        ELSE ShowGoto("s_rename", [fr EXCEPT !.finalTargetFilePath = potentialDuplicatePath], h)
  /\ UNCHANGED <<worldVars, wordListSet, fsVars, flagVars, problematicFiles, memoVars>>

\* rename(originalFilePath, finalTargetFilePath)
ShowRename ==
  /\ pc = "s_rename"
  /\ \E ok \in FsOutcomes :
       /\ faults' = IF ok THEN faults ELSE faults + 1
       /\ loc' = IF ok THEN Renamed(fr.originalFilePath, fr.finalTargetFilePath) ELSE loc
       /\ IF ok
          THEN ShowEnd([hist EXCEPT ![Len(hist)].dest = fr.finalTargetFilePath,
                                    ![Len(hist)].destExisted = Exists(fr.finalTargetFilePath)],
                       "moved", FALSE, TRUE)
          ELSE ShowEnd(hist, "failed", TRUE, FALSE)
  /\ UNCHANGED <<worldVars, wordListSet, dirs, flagVars, problematicFiles, askVars>>

\* the for loop is over: the summary
ShowDone ==
  /\ pc = "loop" /\ cfg.category = "shows" /\ idx > Len(files)
  /\ pc' = "done"
  /\ UNCHANGED <<worldVars, wordListSet, fsVars, idx, flagVars, countVars, fr, memoVars, hist>>

-----------------------------------------------------------------------------
(* musicbrainzClient.ts and the pure helpers of musicOrganizer.ts.         *)

MIN_MB_SCORE_FROM_TAGS == 70
MIN_MB_SCORE_AFTER_LLM_FALLBACK == 65

\* searchMusicBrainzReleases(query): the text handed to the search endpoint
MbSearchQuery(query) == <<"r","e","l","e","a","s","e",":","\"">> \o query \o <<"\"">>

\* the releases of a search, [] when the call threw or carried none
searchMusicBrainzReleases(raw) == IF raw.ok THEN raw.releases ELSE <<>>

NoRelease ==
  [ok |-> FALSE, title |-> <<>>, artistCredit |-> <<>>, date |-> JsUndef,
   primaryType |-> JsUndef, media |-> <<>>]

\* lookupMusicBrainzReleaseTracks: the release with its media, or undefined
lookupMusicBrainzReleaseTracks(raw) == IF raw.ok THEN raw ELSE NoRelease

\* media.flatMap(m => m.tracks || [])
RECURSIVE AllTracksFromMedia(_)
AllTracksFromMedia(media) ==
  IF Len(media) = 0 THEN <<>> ELSE media[1].tracks \o AllTracksFromMedia(Tail(media))

\* artistCredit?.map(ac => ac.artist.name).join(', ') || 'Unknown Artist'
ReleaseArtistCredit(artistCredit) ==
  IF Len(Join(artistCredit, <<",", " ">>)) > 0 THEN Join(artistCredit, <<",", " ">>)
  ELSE <<"U","n","k","n","o","w","n"," ","A","r","t","i","s","t">>

NextCandidateIgnoresScore(searchResults, from, minScore) ==
  LET fit == {i \in from..Len(searchResults) : searchResults[i].id # 0}
  IN IF fit = {} THEN 0 ELSE CHOOSE i \in fit : \A j \in fit : i <= j

\* the first candidate from position `from` on that has an id and a score at or
\* above minScore; 0 when there is none
NextCandidate(searchResults, from, minScore) ==
  LET fit == {i \in from..Len(searchResults) :
                /\ searchResults[i].id # 0
                /\ searchResults[i].score.k = "num"
                /\ searchResults[i].score.n >= minScore}
  IN IF fit = {} THEN 0 ELSE CHOOSE i \in fit : \A j \in fit : i <= j

NoTrack == [ok |-> FALSE, title |-> <<>>, number |-> <<>>, artistCredit |-> <<>>]

\* parseInt(number, 10): -1 stands for NaN
TrackNum(number) ==
  IF Len(number) > 0 /\ number[1] \in Digit
  THEN ParseInt(SubSeq(number, 1, RunLen(number, 1, Digit, Len(number))))
  ELSE -1

NormalizedTitle(title) == ToLowerCase(sanitizeName(title))

\* first pass of findMatchingTrackInRelease from track i on: the track with the
\* number and exactly the title, else the candidate kept by the loop
RECURSIVE MatchByNumber(_, _, _, _, _)
MatchByNumber(tracks, i, normalizedSearchTitle, searchTrackNum, bestMatch) ==
  IF i > Len(tracks) THEN bestMatch
  ELSE IF TrackNum(tracks[i].number) # searchTrackNum
  THEN MatchByNumber(tracks, i + 1, normalizedSearchTitle, searchTrackNum, bestMatch)
  ELSE IF normalizedSearchTitle.k = "str"
          /\ NormalizedTitle(tracks[i].title) = normalizedSearchTitle.s
  THEN [ok |-> TRUE] @@ tracks[i]
  ELSE IF ~bestMatch.ok
          \/ (Truthy(normalizedSearchTitle)
              /\ IndexOf(NormalizedTitle(tracks[i].title), normalizedSearchTitle.s) >= 0)
  THEN MatchByNumber(tracks, i + 1, normalizedSearchTitle, searchTrackNum,
                     [ok |-> TRUE] @@ tracks[i])
  ELSE MatchByNumber(tracks, i + 1, normalizedSearchTitle, searchTrackNum, bestMatch)

\* second pass: the first track with exactly the title, else the shortest
\* title that contains it
RECURSIVE MatchByTitle(_, _, _, _)
MatchByTitle(tracks, i, normalizedSearchTitle, bestMatch) ==
  IF i > Len(tracks) THEN bestMatch
  ELSE IF NormalizedTitle(tracks[i].title) = normalizedSearchTitle
  THEN [ok |-> TRUE] @@ tracks[i]
  ELSE IF IndexOf(NormalizedTitle(tracks[i].title), normalizedSearchTitle) >= 0
          /\ (~bestMatch.ok
              \/ Len(NormalizedTitle(tracks[i].title)) < Len(NormalizedTitle(bestMatch.title)))
  THEN MatchByTitle(tracks, i + 1, normalizedSearchTitle, [ok |-> TRUE] @@ tracks[i])
  ELSE MatchByTitle(tracks, i + 1, normalizedSearchTitle, bestMatch)

\* the two passes, the second one when the first kept no track
MatchPasses(tracks, normalizedSearchTitle, searchTrackNum, byNumber) ==
  IF searchTrackNum >= 0 /\ byNumber.ok THEN byNumber
  ELSE IF Truthy(normalizedSearchTitle)
  THEN MatchByTitle(tracks, 1, normalizedSearchTitle.s, NoTrack)
  ELSE NoTrack

\* searchTitle and searchTrackNumber are a string or undefined
findMatchingTrackInRelease(tracks, searchTitle, searchTrackNumber) ==
  IF Len(tracks) = 0 \/ (~Truthy(searchTitle) /\ ~Truthy(searchTrackNumber)) THEN NoTrack
  ELSE MatchPasses(tracks,
                   IF Truthy(searchTitle) THEN JsStr(NormalizedTitle(searchTitle.s)) ELSE JsNull,
                   IF searchTrackNumber.k = "str" THEN TrackNum(searchTrackNumber.s) ELSE -1,
                   IF searchTrackNumber.k = "str" /\ TrackNum(searchTrackNumber.s) >= 0
                   THEN MatchByNumber(tracks, 1,
                          IF Truthy(searchTitle) THEN JsStr(NormalizedTitle(searchTitle.s))
                          ELSE JsNull,
                          TrackNum(searchTrackNumber.s), NoTrack)
                   ELSE NoTrack)

\* a || b
Or(a, b) == IF Truthy(a) THEN a ELSE b

\* n?.toString()
StrOf(v) == IF v.k = "num" THEN JsStr(NumToStr(v.n)) ELSE JsUndef

\* folders, file name and full paths from the sanitized parts
MusicComponents(destinationDirectory, fileExt, targetArtistFolder, finalAlbumTitle, finalAlbumYear, trackFilenameBase) ==
  LET targetAlbumFolder ==
        finalAlbumTitle \o (IF Truthy(finalAlbumYear)
                            THEN <<" ", "(">> \o finalAlbumYear.s \o <<")">> ELSE <<>>)
  IN [targetArtistFolder |-> targetArtistFolder,
      targetAlbumFolder |-> targetAlbumFolder,
      targetAlbumPath |->
        PathJoin(PathJoin(destinationDirectory, targetArtistFolder), targetAlbumFolder),
      targetFileName |-> trackFilenameBase \o fileExt,
      targetFullPath |->
        PathJoin(PathJoin(PathJoin(destinationDirectory, targetArtistFolder), targetAlbumFolder),
                 trackFilenameBase \o fileExt)]

\* `${finalTrackNumberStr} - ${finalTrackTitle}`, with the track artist in between
TrackFilenameBase(finalTrackNumberStr, withArtist, sanitizedTrackArtist, finalTrackTitle) ==
  finalTrackNumberStr \o <<" ", "-", " ">>
    \o (IF withArtist THEN sanitizedTrackArtist \o <<" ", "-", " ">> ELSE <<>>)
    \o finalTrackTitle

IsCompilationByTypeOnly(mbReleaseDetails) ==
  /\ mbReleaseDetails.primaryType.k = "str"
  /\ ToLowerCase(mbReleaseDetails.primaryType.s) = <<"c","o","m","p","i","l","a","t","i","o","n">>

\* release-group primary type "compilation" or a credited artist "Various Artists"
IsCompilation(mbReleaseDetails) ==
  \/ /\ mbReleaseDetails.primaryType.k = "str"
     /\ ToLowerCase(mbReleaseDetails.primaryType.s) = <<"c","o","m","p","i","l","a","t","i","o","n">>
  \/ \E i \in 1..Len(mbReleaseDetails.artistCredit) :
       ToLowerCase(mbReleaseDetails.artistCredit[i]) = <<"v","a","r","i","o","u","s"," ","a","r","t","i","s","t","s">>

\* the branch of determineMusicPathComponents that has a matched release
PathFromMusicBrainz(destinationDirectory, fileExt, metadata, mbReleaseDetails, mbMatchedTrack, mbReleaseArtistFromSearch, isCompilation, sanitizedTrackSpecificArtist) ==
  MusicComponents(
    destinationDirectory, fileExt,
    sanitizeName(IF isCompilation THEN <<"V","a","r","i","o","u","s"," ","A","r","t","i","s","t","s">>
                 ELSE Or(mbReleaseArtistFromSearch,
                         Or(metadata.albumArtist,
                            Or(metadata.artist, JsStr(<<"U","n","k","n","o","w","n"," ","A","r","t","i","s","t">>)))).s),
    sanitizeName(mbReleaseDetails.title),
    Or(IF mbReleaseDetails.date.k = "str"
       THEN JsStr(Substring(mbReleaseDetails.date.s, 0, 4)) ELSE JsUndef,
       StrOf(metadata.year)),
    TrackFilenameBase(
      PadStart2(Or(JsStr(mbMatchedTrack.number),
                   Or(StrOf(metadata.trackNumber), JsStr(<<"0", "0">>))).s),
      isCompilation /\ Len(sanitizedTrackSpecificArtist) > 0
        /\ ToLowerCase(sanitizedTrackSpecificArtist) # <<"v","a","r","i","o","u","s"," ","a","r","t","i","s","t","s">>,
      sanitizedTrackSpecificArtist,
      sanitizeName(Or(JsStr(mbMatchedTrack.title),
                      Or(metadata.title, JsStr(<<"U","n","k","n","o","w","n"," ","T","r","a","c","k">>))).s)))

\* the branch that has the local tags only
PathFromLocalTags(destinationDirectory, fileExt, metadata, finalAlbumArtist, sanitizedTrackArtist) ==
  MusicComponents(
    destinationDirectory, fileExt,
    finalAlbumArtist,
    sanitizeName(Or(metadata.album, JsStr(<<"U","n","k","n","o","w","n"," ","A","l","b","u","m">>)).s),
    StrOf(metadata.year),
    TrackFilenameBase(
      PadStart2(Or(StrOf(metadata.trackNumber), JsStr(<<"0", "0">>)).s),
      /\ IndexOf(ToLowerCase(finalAlbumArtist), <<"v","a","r","i","o","u","s"," ","a","r","t","i","s","t","s">>) >= 0
      /\ Len(sanitizedTrackArtist) > 0
      /\ ToLowerCase(sanitizedTrackArtist) # <<"v","a","r","i","o","u","s"," ","a","r","t","i","s","t","s">>
      /\ ToLowerCase(sanitizedTrackArtist) # ToLowerCase(finalAlbumArtist),
      sanitizedTrackArtist,
      sanitizeName(Or(metadata.title, JsStr(<<"U","n","k","n","o","w","n"," ","T","r","a","c","k">>)).s)))

determineMusicPathComponents(filePath, metadata, destinationDirectory, mbReleaseDetails, mbMatchedTrack, mbReleaseArtistFromSearch) ==
  IF mbReleaseDetails.ok
  THEN PathFromMusicBrainz(
         destinationDirectory, Extname(Basename(filePath)), metadata, mbReleaseDetails,
         mbMatchedTrack, mbReleaseArtistFromSearch, IsCompilation(mbReleaseDetails),
         sanitizeName(Or(JsStr(Join(mbMatchedTrack.artistCredit, <<",", " ">>)),
                         Or(metadata.artist, JsStr(<<>>))).s))
  ELSE PathFromLocalTags(
         destinationDirectory, Extname(Basename(filePath)), metadata,
         sanitizeName(Or(metadata.albumArtist,
                         Or(metadata.artist, JsStr(<<"U","n","k","n","o","w","n"," ","A","r","t","i","s","t">>))).s),
         sanitizeName(Or(metadata.artist, JsStr(<<>>)).s))

-----------------------------------------------------------------------------
(* musicOrganizer.ts: organizeMusic.                                       *)

\* `release:"${album}" AND artist:"${artist}" AND date:${year}`
ReleaseQuery(album, artist, year) ==
  <<"r","e","l","e","a","s","e",":","\"">> \o album \o <<"\"">>
    \o (IF Truthy(artist) THEN <<" ","A","N","D"," ","a","r","t","i","s","t",":","\"">> \o artist.s \o <<"\"">> ELSE <<>>)
    \o (IF Truthy(year) THEN <<" ","A","N","D"," ","d","a","t","e",":">> \o Render(year) ELSE <<>>)

\* the query of the first search, from the local tags
TagsSearchQuery(localMetadata) ==
  ReleaseQuery(sanitizeName(localMetadata.album.s),
               IF Truthy(localMetadata.artist)
               THEN JsStr(sanitizeName(localMetadata.artist.s)) ELSE JsUndef,
               localMetadata.year)

\* the query of the search after the LLM call; the LLM named an artist and an
\* album or a title
LlmSearchQuery(llmMusicInfo, localMetadata) ==
  ReleaseQuery(IF Len(llmMusicInfo.album) > 0 THEN sanitizeName(llmMusicInfo.album)
               ELSE IF Truthy(localMetadata.album) THEN sanitizeName(localMetadata.album.s)
               ELSE sanitizeName(llmMusicInfo.title),
               JsStr(sanitizeName(llmMusicInfo.artist)),
               IF Truthy(llmMusicInfo.year) THEN llmMusicInfo.year ELSE JsUndef)

NoLlmMusic ==
  [ok |-> FALSE, artist |-> <<>>, album |-> <<>>, title |-> <<>>,
   year |-> JsNull, trackNumber |-> JsNull]

MusicFrame(originalFilePath, localMetadata) ==
  [k |-> "music",
   originalFilePath |-> originalFilePath,
   fileBasename |-> Basename(originalFilePath),
   fileExt |-> Extname(Basename(originalFilePath)),
   localMetadata |-> localMetadata,
   searchResults |-> <<>>, cand |-> 0,
   llmMusicInfo |-> NoLlmMusic, llmSearchQuery |-> <<>>,
   mbReleaseDetails |-> NoRelease, mbMatchedTrack |-> NoTrack,
   mbReleaseArtistFromSearch |-> JsUndef, attemptSource |-> "None",
   targetAlbumPath |-> <<>>, targetFileName |-> <<>>, targetFullPath |-> <<>>,
   finalTargetFilePath |-> <<>>, dupCount |-> 0]

MusicStart ==
  /\ pc = "start" /\ cfg.category = "music"
  /\ pc' = IF Len(files) = 0 THEN "done" ELSE "loop"
  /\ UNCHANGED <<worldVars, wordListSet, fsVars, idx, flagVars, countVars, fr, memoVars, hist>>

\* the end of the iteration for a file, with the list and the counter updated
MusicEnd(h, how, skipIt, moved) ==
  /\ Continue([h EXCEPT ![Len(h)].end = how])
  /\ skippedFilePathsDueToMetadataUncertainty' =
       IF skipIt THEN Append(skippedFilePathsDueToMetadataUncertainty, h[Len(h)].path)
       ELSE skippedFilePathsDueToMetadataUncertainty
  /\ movedFiles' = IF moved THEN movedFiles + 1 ELSE movedFiles

\* the iteration goes on at the next await
MusicGoto(where, f, h) ==
  /\ idx' = idx /\ pc' = where /\ fr' = f /\ hist' = h
  /\ UNCHANGED <<skippedFilePathsDueToMetadataUncertainty, movedFiles>>

\* the dry-run block and the branch on proceedWithOperations of the actual run
MusicOperate(f, h, proceedWithOperations) ==
  IF ~proceedWithOperations THEN MusicEnd(h, "declined", TRUE, FALSE)
  ELSE IF cfg.isDryRun
  THEN MusicEnd([h EXCEPT ![Len(h)].reported =
                    IF Exists(f.targetFullPath)
                    THEN PathJoin(f.targetAlbumPath, DupFileName(f.targetFileName, f.fileExt, 1))
                    ELSE f.targetFullPath],
                "dryrun", FALSE, TRUE)
  ELSE MusicGoto("a_mkdir", f, h)

\* the already-organized tests, the skip-all test, then the prompt or the operations
MusicPlace(f, h, c) ==
  IF \/ /\ Dirname(Dirname(Dirname(f.originalFilePath))) = sourceDirectory
        /\ Basename(Dirname(Dirname(f.originalFilePath))) = c.targetArtistFolder
        /\ Basename(Dirname(f.originalFilePath)) = c.targetAlbumFolder
        /\ f.fileBasename = c.targetFileName
     \/ f.originalFilePath = c.targetFullPath
  THEN MusicEnd(h, "organized", FALSE, FALSE)
  ELSE IF skipAllCurrentCategory THEN MusicEnd(h, "skipall", FALSE, FALSE)
  ELSE IF cfg.isInteractive /\ ~confirmAllCurrentCategory
  THEN MusicGoto("a_prompt",
                 [f EXCEPT !.targetAlbumPath = c.targetAlbumPath,
                           !.targetFileName = c.targetFileName,
                           !.targetFullPath = c.targetFullPath,
                           !.finalTargetFilePath = c.targetFullPath],
                 h)
  ELSE MusicOperate([f EXCEPT !.targetAlbumPath = c.targetAlbumPath,
                              !.targetFileName = c.targetFileName,
                              !.targetFullPath = c.targetFullPath,
                              !.finalTargetFilePath = c.targetFullPath],
                    h, TRUE)

MusicPlaceAt(f, h, c) == MusicPlace(f, [h EXCEPT ![Len(h)].target = c.targetFullPath], c)

\* the path from the matched release and track, else from the local tags
MusicPathStage(f, h) ==
  MusicPlaceAt(f, h,
               determineMusicPathComponents(f.originalFilePath, f.localMetadata,
                                            sourceDirectory, f.mbReleaseDetails,
                                            f.mbMatchedTrack, f.mbReleaseArtistFromSearch))

MusicAfterTagsSkipsWithoutLlm(f, h) ==
  IF cfg.llmKey THEN MusicGoto("a_llm", f, h)
  ELSE MusicEnd([h EXCEPT ![Len(h)].state = "Skipped"], "skipped", TRUE, FALSE)

\* the search from the local tags found nothing: the LLM when it can be called
MusicAfterTags(f, h) ==
  IF cfg.llmKey THEN MusicGoto("a_llm", f, h) ELSE MusicPathStage(f, h)

\* for (const potentialRelease of searchResults), from position `from` on
MusicCandidatesFromTags(f, h, potentialRelease) ==
  IF potentialRelease = 0 THEN MusicAfterTags(f, h)
  ELSE MusicGoto("a_lookup1", [f EXCEPT !.cand = potentialRelease], h)

\* for (const potentialRelease of llmSearchResults), from position `from` on
MusicCandidatesFromLlm(f, h, potentialRelease) ==
  IF potentialRelease = 0 THEN MusicPathStage(f, h)
  ELSE MusicGoto("a_lookup2", [f EXCEPT !.cand = potentialRelease], h)

\* the release and the track are settled
MusicMatched(f, releaseWithTracks, matchedTrackAttempt, attemptSource) ==
  [f EXCEPT !.mbReleaseDetails = releaseWithTracks,
            !.mbMatchedTrack = matchedTrackAttempt,
            !.mbReleaseArtistFromSearch =
               JsStr(ReleaseArtistCredit(f.searchResults[f.cand].artistCredit)),
            !.attemptSource = attemptSource]

\* MusicBrainz answers a search the way it answered it before
MbSearchAsks(q) ==
  LET all == {[q |-> q, raw |-> raw] : raw \in MbSearchAnswers}
  IN IF \E m \in tmdbMemo : m.q = q
     THEN {a \in all : \E m \in tmdbMemo : m.q = q /\ m.ans = searchMusicBrainzReleases(a.raw)}
     ELSE all

\* MusicBrainz answers a release lookup the way it answered it before
MbLookupAsks(q) ==
  IF \E m \in seasonMemo : m.q = q THEN {m \in seasonMemo : m.q = q}
  ELSE {[q |-> q, raw |-> raw] : raw \in MbLookupAnswers}

LlmMusicAsks(q) ==
  IF \E m \in llmMemo : m.q = q THEN {m \in llmMemo : m.q = q}
  ELSE {[q |-> q, ans |-> a] : a \in LlmMusicAnswers}

\* loop head: the local tags, then the first search when there is an album tag
MusicBegin ==
  /\ pc = "loop" /\ cfg.category = "music" /\ idx <= Len(files)
  /\ LET localMetadata == Catalogue(cfg.category)[FileAt(files[idx])].meta
         h == Append(Settled(hist), [NewHist(files[idx]) EXCEPT !.meta = localMetadata])
     IN IF ~localMetadata.ok
        THEN MusicEnd([h EXCEPT ![Len(h)].state = "Skipped"], "skipped", TRUE, FALSE)
        ELSE IF Truthy(localMetadata.album)
        THEN MusicGoto("a_search1", MusicFrame(files[idx], localMetadata), h)
        ELSE MusicAfterTags(MusicFrame(files[idx], localMetadata), h)
  /\ UNCHANGED <<worldVars, wordListSet, fsVars, flagVars, problematicFiles, memoVars>>

\* searchMusicBrainzReleases with the query built from the local tags
MusicSearch1 ==
  /\ pc = "a_search1"
  /\ \E ask \in MbSearchAsks(MbSearchQuery(TagsSearchQuery(fr.localMetadata))) :
       /\ tmdbMemo' = tmdbMemo \cup {[q |-> ask.q, ans |-> searchMusicBrainzReleases(ask.raw)]}
       /\ MusicCandidatesFromTags(
            [fr EXCEPT !.searchResults = searchMusicBrainzReleases(ask.raw)],
            [hist EXCEPT ![Len(hist)].calls = Append(@, "mb")],
            NextCandidate(searchMusicBrainzReleases(ask.raw), 1, MIN_MB_SCORE_FROM_TAGS))
  /\ UNCHANGED <<worldVars, wordListSet, fsVars, flagVars, problematicFiles,
                 llmMemo, seasonMemo, faults>>

\* a release with tracks among which the tags' title or track number is found
MusicTryTags(f, h, releaseWithTracks, matchedTrackAttempt) ==
  IF releaseWithTracks.ok /\ matchedTrackAttempt.ok
  THEN MusicPathStage(MusicMatched(f, releaseWithTracks, matchedTrackAttempt, "Local Tags"),
                      [h EXCEPT ![Len(h)].state = "AuthoritativeConfirmed",
                                ![Len(h)].prov =
                                   [release |-> releaseWithTracks,
                                    tracks |-> AllTracksFromMedia(releaseWithTracks.media),
                                    track |-> matchedTrackAttempt]
                                     @@ f.searchResults[f.cand]])
  ELSE MusicCandidatesFromTags(f, h,
         NextCandidate(f.searchResults, f.cand + 1, MIN_MB_SCORE_FROM_TAGS))

\* lookupMusicBrainzReleaseTracks for a candidate of the first search
MusicLookup1 ==
  /\ pc = "a_lookup1"
  /\ \E ask \in MbLookupAsks([id |-> fr.searchResults[fr.cand].id]) :
       /\ seasonMemo' = seasonMemo \cup {ask}
       /\ MusicTryTags(fr, [hist EXCEPT ![Len(hist)].calls = Append(@, "lookup")],
                       lookupMusicBrainzReleaseTracks(ask.raw),
                       findMatchingTrackInRelease(
                         AllTracksFromMedia(lookupMusicBrainzReleaseTracks(ask.raw).media),
                         fr.localMetadata.title, StrOf(fr.localMetadata.trackNumber)))
  /\ UNCHANGED <<worldVars, wordListSet, fsVars, flagVars, problematicFiles,
                 tmdbMemo, llmMemo, faults>>

\* getCorrectedMusicInfoFromLLM with the file name and the local tags
MusicLlm ==
  /\ pc = "a_llm"
  /\ \E ask \in LlmMusicAsks([filename |-> fr.fileBasename, tags |-> fr.localMetadata]) :
       /\ llmMemo' = llmMemo \cup {ask}
       /\ IF ask.ans.ok /\ Len(ask.ans.artist) > 0
             /\ (Len(ask.ans.album) > 0 \/ Len(ask.ans.title) > 0)
          THEN MusicGoto("a_search2",
                         [fr EXCEPT !.llmMusicInfo = ask.ans,
                                    !.llmSearchQuery = LlmSearchQuery(ask.ans, fr.localMetadata)],
                         [hist EXCEPT ![Len(hist)].calls = Append(@, "llm"),
                                      ![Len(hist)].llm = ask.ans])
          ELSE MusicPathStage(fr, [hist EXCEPT ![Len(hist)].calls = Append(@, "llm"),
                                               ![Len(hist)].llm = ask.ans])
  /\ UNCHANGED <<worldVars, wordListSet, fsVars, flagVars, problematicFiles,
                 tmdbMemo, seasonMemo, faults>>

\* searchMusicBrainzReleases with the query built from the LLM's answer
MusicSearch2 ==
  /\ pc = "a_search2"
  /\ \E ask \in MbSearchAsks(MbSearchQuery(fr.llmSearchQuery)) :
       /\ tmdbMemo' = tmdbMemo \cup {[q |-> ask.q, ans |-> searchMusicBrainzReleases(ask.raw)]}
       /\ MusicCandidatesFromLlm(
            [fr EXCEPT !.searchResults = searchMusicBrainzReleases(ask.raw)],
            [hist EXCEPT ![Len(hist)].calls = Append(@, "mb")],
            NextCandidate(searchMusicBrainzReleases(ask.raw), 1,
                          MIN_MB_SCORE_AFTER_LLM_FALLBACK))
  /\ UNCHANGED <<worldVars, wordListSet, fsVars, flagVars, problematicFiles,
                 llmMemo, seasonMemo, faults>>

\* the match with the LLM's title and number, then with the LLM's title alone
MatchAfterLlm(tracks, llmMusicInfo, localMetadata, matchedTrackAttempt) ==
  IF ~matchedTrackAttempt.ok /\ Len(llmMusicInfo.title) > 0
  THEN findMatchingTrackInRelease(tracks, JsStr(llmMusicInfo.title), JsUndef)
  ELSE matchedTrackAttempt

MusicTryLlmKeepsSearching(f, h, releaseWithTracks, matchedTrackAttempt) ==
  IF releaseWithTracks.ok /\ matchedTrackAttempt.ok
     /\ NextCandidate(f.searchResults, f.cand + 1, MIN_MB_SCORE_AFTER_LLM_FALLBACK) = 0
  THEN MusicPathStage(MusicMatched(f, releaseWithTracks, matchedTrackAttempt, "LLM Fallback"),
                      [h EXCEPT ![Len(h)].state = "LlmAssisted",
                                ![Len(h)].prov =
                                   [release |-> releaseWithTracks,
                                    tracks |-> AllTracksFromMedia(releaseWithTracks.media),
                                    track |-> matchedTrackAttempt]
                                     @@ f.searchResults[f.cand]])
  ELSE MusicCandidatesFromLlm(
         IF releaseWithTracks.ok /\ matchedTrackAttempt.ok
         THEN MusicMatched(f, releaseWithTracks, matchedTrackAttempt, "LLM Fallback") ELSE f,
         IF releaseWithTracks.ok /\ matchedTrackAttempt.ok
         THEN [h EXCEPT ![Len(h)].state = "LlmAssisted",
                        ![Len(h)].prov =
                           [release |-> releaseWithTracks,
                            tracks |-> AllTracksFromMedia(releaseWithTracks.media),
                            track |-> matchedTrackAttempt]
                             @@ f.searchResults[f.cand]]
         ELSE h,
         NextCandidate(f.searchResults, f.cand + 1, MIN_MB_SCORE_AFTER_LLM_FALLBACK))

MusicTryLlm(f, h, releaseWithTracks, matchedTrackAttempt) ==
  IF releaseWithTracks.ok /\ matchedTrackAttempt.ok
  THEN MusicPathStage(MusicMatched(f, releaseWithTracks, matchedTrackAttempt, "LLM Fallback"),
                      [h EXCEPT ![Len(h)].state = "LlmAssisted",
                                ![Len(h)].prov =
                                   [release |-> releaseWithTracks,
                                    tracks |-> AllTracksFromMedia(releaseWithTracks.media),
                                    track |-> matchedTrackAttempt]
                                     @@ f.searchResults[f.cand]])
  ELSE MusicCandidatesFromLlm(f, h,
         NextCandidate(f.searchResults, f.cand + 1, MIN_MB_SCORE_AFTER_LLM_FALLBACK))

\* lookupMusicBrainzReleaseTracks for a candidate of the search after the LLM call
MusicLookup2 ==
  /\ pc = "a_lookup2"
  /\ \E ask \in MbLookupAsks([id |-> fr.searchResults[fr.cand].id]) :
       /\ seasonMemo' = seasonMemo \cup {ask}
       /\ MusicTryLlm(fr, [hist EXCEPT ![Len(hist)].calls = Append(@, "lookup")],
                      lookupMusicBrainzReleaseTracks(ask.raw),
                      MatchAfterLlm(
                        AllTracksFromMedia(lookupMusicBrainzReleaseTracks(ask.raw).media),
                        fr.llmMusicInfo, fr.localMetadata,
                        findMatchingTrackInRelease(
                          AllTracksFromMedia(lookupMusicBrainzReleaseTracks(ask.raw).media),
                          Or(JsStr(fr.llmMusicInfo.title), fr.localMetadata.title),
                          Or(StrOf(fr.llmMusicInfo.trackNumber),
                             StrOf(fr.localMetadata.trackNumber)))))
  /\ UNCHANGED <<worldVars, wordListSet, fsVars, flagVars, problematicFiles,
                 tmdbMemo, llmMemo, faults>>

MusicPromptTakesInvalidAsYes ==
  /\ pc = "a_prompt"
  /\ \E answer \in Answers :
       /\ confirmAllCurrentCategory' = (confirmAllCurrentCategory \/ answer = "a")
       /\ skipAllCurrentCategory' = (skipAllCurrentCategory \/ answer = "s")
       /\ IF answer = "q"
          THEN /\ Quit([Answered(hist, answer) EXCEPT ![Len(hist)].end = "quit"])
               /\ UNCHANGED <<skippedFilePathsDueToMetadataUncertainty, movedFiles>>
          ELSE MusicOperate(fr, Answered(hist, answer), answer \in {"a", "y", "x"})
  /\ UNCHANGED <<worldVars, wordListSet, fsVars, problematicFiles, memoVars>>

\* prompt "Organize ... to ...? (y/n/a/s/q)"
MusicPrompt ==
  /\ pc = "a_prompt"
  /\ \E answer \in Answers :
       /\ confirmAllCurrentCategory' = (confirmAllCurrentCategory \/ answer = "a")
       /\ skipAllCurrentCategory' = (skipAllCurrentCategory \/ answer = "s")
       /\ IF answer = "q"
          THEN /\ Quit([Answered(hist, answer) EXCEPT ![Len(hist)].end = "quit"])
               /\ UNCHANGED <<skippedFilePathsDueToMetadataUncertainty, movedFiles>>
          ELSE MusicOperate(fr, Answered(hist, answer), answer \in {"a", "y"})
  /\ UNCHANGED <<worldVars, wordListSet, fsVars, problematicFiles, memoVars>>

\* mkdir(targetAlbumPath, {recursive: true}); a failure is caught at the end of the try
MusicMkdir ==
  /\ pc = "a_mkdir"
  /\ \E ok \in FsOutcomes :
       /\ faults' = IF ok THEN faults ELSE faults + 1
       /\ dirs' = IF ok THEN dirs \cup Ancestors(fr.targetAlbumPath) ELSE dirs
       /\ problematicFiles' = IF ok THEN problematicFiles
                              ELSE Append(problematicFiles, fr.originalFilePath)
       /\ IF ok THEN MusicGoto("a_access", fr,
                                [hist EXCEPT ![Len(hist)].mkdir = TRUE,
                                             ![Len(hist)].made = Ancestors(fr.targetAlbumPath) \ dirs])
          ELSE MusicEnd(hist, "failed", FALSE, FALSE)
  /\ UNCHANGED <<worldVars, wordListSet, loc, flagVars, askVars>>

\* access(finalTargetFilePath)
MusicAccess ==
  /\ pc = "a_access"
  /\ MusicGoto(IF Exists(fr.finalTargetFilePath) THEN "a_probe" ELSE "a_rename",
               [fr EXCEPT !.dupCount = IF Exists(fr.finalTargetFilePath) THEN 1 ELSE 0],
               [hist EXCEPT ![Len(hist)].probes = Append(@, 0)])
  /\ UNCHANGED <<worldVars, wordListSet, fsVars, flagVars, problematicFiles, memoVars>>

\* one turn of the while (true) loop over the _dup_N candidates
MusicProbe ==
  /\ pc = "a_probe"
  /\ LET potentialDuplicatePath ==
           PathJoin(fr.targetAlbumPath, DupFileName(fr.targetFileName, fr.fileExt, fr.dupCount))
         h == [hist EXCEPT ![Len(hist)].probes = Append(@, fr.dupCount)]
     IN IF Exists(potentialDuplicatePath)
        THEN IF fr.dupCount + 1 > MaxDupAttempts
             THEN MusicEnd(h, "exhausted", TRUE, FALSE)
             ELSE MusicGoto("a_probe", [fr EXCEPT !.dupCount = fr.dupCount + 1], h)
        ELSE MusicGoto("a_rename", [fr EXCEPT !.finalTargetFilePath = potentialDuplicatePath], h)
  /\ UNCHANGED <<worldVars, wordListSet, fsVars, flagVars, problematicFiles, memoVars>>

\* rename(originalFilePath, finalTargetFilePath); a failure is caught at the end of the try
MusicRename ==
  /\ pc = "a_rename"
  /\ \E ok \in FsOutcomes :
       /\ faults' = IF ok THEN faults ELSE faults + 1
       /\ loc' = IF ok THEN Renamed(fr.originalFilePath, fr.finalTargetFilePath) ELSE loc
       /\ problematicFiles' = IF ok THEN problematicFiles
                              ELSE Append(problematicFiles, fr.originalFilePath)
       /\ IF ok
          THEN MusicEnd([hist EXCEPT ![Len(hist)].dest = fr.finalTargetFilePath,
                                     ![Len(hist)].destExisted = Exists(fr.finalTargetFilePath)],
                        "moved", FALSE, TRUE)
          ELSE MusicEnd(hist, "failed", FALSE, FALSE)
  /\ UNCHANGED <<worldVars, wordListSet, dirs, flagVars, askVars>>

\* the for loop is over: the summary
MusicDone ==
  /\ pc = "loop" /\ cfg.category = "music" /\ idx > Len(files)
  /\ pc' = "done"
  /\ UNCHANGED <<worldVars, wordListSet, fsVars, idx, flagVars, countVars, fr, memoVars, hist>>

-----------------------------------------------------------------------------
(* index.ts: the tool is started again, unattended, on the same directory.  *)

Rerun ==
  /\ pc = "done" /\ run = 1 /\ ~cfg.isInteractive
  /\ run' = 2
  /\ files' = scanDirectory(loc)
  /\ idx' = 1
  /\ pc' = "start"
  /\ wordListSet' = [loaded |-> FALSE, words |-> {}, reads |-> 0]
  /\ confirmAllCurrentCategory' = FALSE
  /\ skipAllCurrentCategory' = FALSE
  /\ movedFiles' = 0
  /\ problematicFiles' = <<>>
  /\ skippedFilePathsDueToMetadataUncertainty' = <<>>
  /\ hist' = <<>>
  /\ UNCHANGED <<cfg, fsVars, fr, memoVars, preview>>

\* the command is given again without --dry-run after a dry run: same library,
\* same answers of the services
RunAfterDryRun ==
  /\ pc = "done" /\ run = 1 /\ cfg.isDryRun
  /\ cfg' = [cfg EXCEPT !.isDryRun = FALSE]
  /\ run' = 3
  /\ files' = scanDirectory(loc)
  /\ idx' = 1
  /\ pc' = "start"
  /\ wordListSet' = [loaded |-> FALSE, words |-> {}, reads |-> 0]
  /\ confirmAllCurrentCategory' = FALSE
  /\ skipAllCurrentCategory' = FALSE
  /\ movedFiles' = 0
  /\ problematicFiles' = <<>>
  /\ skippedFilePathsDueToMetadataUncertainty' = <<>>
  /\ preview' = {[path |-> hist[i].path, reported |-> hist[i].reported] :
                   i \in {j \in 1..Len(hist) : hist[j].end = "dryrun"}}
  /\ hist' = <<>>
  /\ UNCHANGED <<fsVars, fr, memoVars>>

Next ==
  \/ MovieStart \/ MovieBegin \/ MovieTmdb1 \/ MovieLlm \/ MovieTmdb2
  \/ MoviePromptDir \/ MovieMkdir \/ MoviePromptMove
  \/ MovieAccess \/ MovieProbe \/ MovieRename \/ MovieDone
  \/ ShowStart \/ ShowBegin \/ ShowSearch1 \/ ShowLlm \/ ShowSearch2 \/ ShowSeason
  \/ ShowPrompt \/ ShowMkdir \/ ShowAccess \/ ShowProbe \/ ShowRename \/ ShowDone
  \/ MusicStart \/ MusicBegin \/ MusicSearch1 \/ MusicLookup1 \/ MusicLlm
  \/ MusicSearch2 \/ MusicLookup2 \/ MusicPrompt \/ MusicMkdir \/ MusicAccess
  \/ MusicProbe \/ MusicRename \/ MusicDone
  \/ Rerun \/ RunAfterDryRun

Spec == Init /\ [][Next]_vars

-----------------------------------------------------------------------------
(* Properties.  Every record of hist gets its values while it is the last  *)
(* one, so a property of the file being processed is stated on Cur.        *)

Processing == Len(hist) > 0
Movies == cfg.category = "movies"
Shows == cfg.category = "shows"

\* the paths recorded as skipped for lack of a trustworthy identity
SkippedPaths ==
  {skippedFilePathsDueToMetadataUncertainty[i] :
     i \in DOMAIN skippedFilePathsDueToMetadataUncertainty}

\* C1: for a movie or a show processed with a provider key, when the lookup
\* has failed and the LLM call has failed too, the file is skipped: it is
\* recorded as skipped, gets no identity and no target (so no parse of its
\* name is used as identity), no directory is made and it is not renamed.
C1_BothFailSkipped ==
  (Processing /\ (Movies \/ Shows) /\ cfg.apiKey
   /\ Cur.calls = <<"tmdb", "llm">> /\ ~Cur.llm.ok) =>
    /\ Cur.end = "skipped"
    /\ Cur.state = "Skipped"
    /\ Cur.title = <<>> /\ Cur.target = <<>>
    /\ ~Cur.mkdir /\ Cur.dest = <<>>
    /\ loc[FileAt(Cur.path)] = Cur.path
    /\ Cur.path \in SkippedPaths

\* a movie whose segmented parse would name it, skipped after both calls failed
C1_Witness ==
  /\ Processing /\ Movies /\ cfg.apiKey /\ ~cfg.isDryRun
  /\ Cur.calls = <<"tmdb", "llm">> /\ ~Cur.llm.ok
  /\ Len(parseMovieFilename(Basename(Cur.path), TRUE, cfg.wordFile).title) > 0
  /\ Cur.end = "skipped"

\* a show skipped after both calls failed
C1_WitnessShow ==
  /\ Processing /\ Shows /\ cfg.apiKey /\ ~cfg.isDryRun
  /\ Cur.calls = <<"tmdb", "llm">> /\ ~Cur.llm.ok
  /\ Cur.end = "skipped"

\* the path the movie organizer builds from a title and a year
MovieTargetFor(title, year, path) ==
  PathJoin(PathJoin(sourceDirectory, SanitizeFolderName(TitleWithYear(title, year))),
           SanitizeFolderName(TitleWithYear(title, year)) \o Extname(Basename(path)))

\* C6: in the movie pipeline, when an authoritative lookup has succeeded (the
\* first one or the retry), the title and year of the file and its target
\* path are the provider's, whatever the seed and the LLM said.
C6_ProviderIdentityUsed ==
  (Processing /\ Movies /\ Cur.prov.ok) =>
    /\ Cur.state = "AuthoritativeConfirmed"
    /\ Cur.title = Cur.prov.title
    /\ Cur.year = Cur.prov.year
    /\ Cur.target = MovieTargetFor(Cur.prov.title, Cur.prov.year, Cur.path)

\* a file moved after the retry succeeded, with a provider title that differs from the LLM's
C6_Witness ==
  /\ Processing /\ Movies /\ Cur.prov.ok
  /\ Cur.calls = <<"tmdb", "llm", "tmdb">>
  /\ Cur.llm.title # Cur.prov.title
  /\ Cur.end = "moved"
  /\ Cur.dest = MovieTargetFor(Cur.prov.title, Cur.prov.year, Cur.path)

\* C7: in the movie pipeline, when the first lookup failed, the LLM answered
\* and the retry failed too, the file is in LlmFallback with the LLM's title
\* and year, and no lookup follows the retry.
C7_LlmFallbackIdentity ==
  (Processing /\ Movies /\ Len(Cur.calls) >= 3 /\ ~Cur.prov.ok) =>
    /\ Cur.llm.ok
    /\ Cur.state = "LlmFallback"
    /\ Cur.title = Cur.llm.title
    /\ Cur.year = Cur.llm.year
    /\ Cur.calls = <<"tmdb", "llm", "tmdb">>

\* a file moved under the title and year of the LLM after both lookups failed
C7_Witness ==
  /\ Processing /\ Movies /\ Cur.state = "LlmFallback"
  /\ Cur.llm.year.k = "num" /\ Len(Cur.llm.title) > 0
  /\ Cur.end = "moved"
  /\ Cur.dest = MovieTargetFor(Cur.llm.title, Cur.llm.year, Cur.path)

\* C8: in the movie pipeline with a provider key, a file for which no
\* resolution path gave a non-empty title gets no target: no directory is
\* made for it and it is not moved.
C8_EmptyTitleSkipped ==
  (Processing /\ Movies /\ cfg.apiKey /\ Cur.end # "open" /\ Cur.title = <<>>) =>
    /\ ~Cur.mkdir
    /\ Cur.end # "moved"

\* C8, first half: with a provider key and no LLM service, a failed lookup
\* ends the file as skipped, recorded and untouched.
C8_NoLlmSkipped ==
  (Processing /\ Movies /\ cfg.apiKey /\ ~cfg.llmKey /\ Cur.calls # <<>> /\ ~Cur.prov.ok) =>
    /\ Cur.calls = <<"tmdb">>
    /\ Cur.end = "skipped"
    /\ Cur.state = "Skipped"
    /\ Cur.target = <<>> /\ ~Cur.mkdir
    /\ Cur.path \in {skippedFilePathsDueToMetadataUncertainty[i] :
                       i \in DOMAIN skippedFilePathsDueToMetadataUncertainty}

\* the seed of a movie file: embedded title and year, else the segmented parse
MovieSeed(meta, path) ==
  IF Truthy(meta.title) THEN [title |-> meta.title.s, year |-> meta.year]
  ELSE parseMovieFilename(Basename(path), TRUE, cfg.wordFile)

\* C9: without a provider key the movie pipeline calls neither the provider
\* nor the LLM, and the identity of a file is its seed: the embedded title
\* and year when there is an embedded title, else the fully segmented parse
\* of the file name.
C9_NoKeyUsesSeed ==
  (Processing /\ Movies /\ ~cfg.apiKey) =>
    /\ Cur.calls = <<>>
    /\ tmdbMemo = {} /\ llmMemo = {}
    /\ Cur.end \notin {"open", "organized"} =>
         /\ Cur.state = "LocalOnly" \/ Cur.end = "invalid"
         /\ [title |-> Cur.title, year |-> Cur.year] = MovieSeed(Cur.meta, Cur.path)

\* a file without embedded title moved under a segmented title the gentle parse does not give
C9_Witness ==
  /\ Processing /\ Movies /\ ~cfg.apiKey
  /\ ~Truthy(Cur.meta.title)
  /\ Cur.title # parseMovieFilename(Basename(Cur.path), FALSE, cfg.wordFile).title
  /\ Cur.end = "moved"

\* a file with an embedded title moved under it
C9_WitnessEmbedded ==
  /\ Processing /\ Movies /\ ~cfg.apiKey
  /\ Truthy(Cur.meta.title) /\ Cur.title = Cur.meta.title.s
  /\ Cur.end = "moved"

\* the n-th candidate for a target: the canonical path, then <name>_dup_n<ext>
Candidate(target, n) ==
  IF n = 0 THEN target
  ELSE PathJoin(Dirname(target), DupFileName(Basename(target), Extname(Basename(target)), n))

C2_WitnessMusic ==
  /\ Processing /\ ~cfg.isDryRun /\ cfg.category = "music"
  /\ Cur.end = "moved"
  /\ Cur.probes = <<0, 1>>
  /\ Cur.state = "AuthoritativeConfirmed"

\* the records of the files moved in this run
MovedInRun == {i \in DOMAIN hist : hist[i].end = "moved"}

C4_DupFileStaysPut ==
  (Processing /\ run = 2 /\ faults = 0 /\ ~cfg.isDryRun
   /\ IndexOf(Basename(Cur.path), <<"_","d","u","p","_">>) >= 0) =>
    Cur.end # "moved"

\* C5: in a dry run the file system stays as it was: every file is where the
\* library had it, the scanner would list the same files, the directories are
\* those of the files, and no directory was made nor a file moved for the
\* file being processed.
C5_DryRunLeavesFilesystem ==
  cfg.isDryRun =>
    /\ \A f \in FileIds : loc[f] \in {<<>>, Catalogue(cfg.category)[f].path}
    /\ scanDirectory(loc) = files
    /\ dirs = UNION {Ancestors(Dirname(loc[f])) : f \in OnDisk}
    /\ Processing => ~Cur.mkdir /\ Cur.dest = <<>>

\* a dry run that looked a file up and announced a move for it
C5_Witness ==
  /\ cfg.isDryRun /\ Processing
  /\ Cur.end = "dryrun"
  /\ Len(Cur.calls) > 0
  /\ Cur.reported # <<>> /\ Cur.reported # Cur.path
  /\ ~Exists(Dirname(Cur.reported))

\* the series title of the seed of a show file
ShowSeedTitle(meta, path) ==
  ShowSeed(ShowFrame(path), meta,
           parseShowFilename(Basename(path), TRUE, cfg.wordFile)).finalSeriesTitle

\* C10: a show file whose seed has no series title is skipped without any
\* call to the provider or to the LLM, also when season and episode are known.
C10_NoTitleNoCall ==
  (Processing /\ Shows /\ ~Truthy(ShowSeedTitle(Cur.meta, Cur.path))) =>
    /\ Cur.calls = <<>>
    /\ Cur.end = "skipped"
    /\ Cur.target = <<>> /\ ~Cur.mkdir
    /\ Cur.path \in SkippedPaths

\* with both keys set, a file named by season and episode only is skipped
C10_Witness ==
  /\ Processing /\ Shows /\ cfg.apiKey /\ cfg.llmKey
  /\ ~Truthy(ShowSeedTitle(Cur.meta, Cur.path))
  /\ parseShowFilename(Basename(Cur.path), TRUE, cfg.wordFile).seasonNumber.k = "num"
  /\ parseShowFilename(Basename(Cur.path), TRUE, cfg.wordFile).episodeNumber.k = "num"
  /\ Cur.end = "skipped"

\* the positions of the season-details calls among the calls made for the file
SeasonCalls(calls) == {i \in DOMAIN calls : calls[i] = "season"}

\* C11: for a show file the season's episode list is fetched exactly when the
\* series search gave a series id (state AuthoritativeConfirmed), once, and
\* after the searches; a file with an LLM fallback identity, a skipped one or
\* one handled without a provider key has no such call.
C11_SeasonCallIffSeriesId ==
  (Processing /\ Shows) =>
    /\ Cardinality(SeasonCalls(Cur.calls)) <= 1
    /\ SeasonCalls(Cur.calls) \subseteq {Len(Cur.calls)}
    /\ SeasonCalls(Cur.calls) # {} => cfg.apiKey /\ Cur.state = "AuthoritativeConfirmed"
    /\ pc = "s_season" =>
         fr.tmdbSeriesId # 0 /\ Cur.state = "AuthoritativeConfirmed"
         /\ SeasonCalls(Cur.calls) = {}
    /\ (Cur.state = "AuthoritativeConfirmed" /\ pc # "s_season") =>
         Cardinality(SeasonCalls(Cur.calls)) = 1
    /\ Cur.state \in {"LlmFallback", "LocalOnly", "Skipped"} => SeasonCalls(Cur.calls) = {}

\* a series confirmed on the retry after the LLM, its season fetched, the file moved
C11_Witness ==
  /\ Processing /\ Shows
  /\ Cur.state = "AuthoritativeConfirmed"
  /\ Cur.calls = <<"tmdb", "llm", "tmdb", "season">>
  /\ Cur.end = "moved"

\* a file moved under the LLM's series name, no season fetched
C11_WitnessFallback ==
  /\ Processing /\ Shows
  /\ Cur.state = "LlmFallback"
  /\ Cur.calls = <<"tmdb", "llm", "tmdb">>
  /\ Cur.end = "moved"

Music == cfg.category = "music"

\* the music file is still in the identity stage: searches, lookups, the LLM
MusicResolving == pc \in {"a_search1", "a_lookup1", "a_llm", "a_search2", "a_lookup2"}

\* the path the local tags alone give a file
MusicTargetFromTags(path, meta) ==
  determineMusicPathComponents(path, meta, sourceDirectory, NoRelease, NoTrack,
                               JsUndef).targetFullPath

ScoreAtLeast(candidate, minScore) ==
  candidate.id # 0 /\ candidate.score.k = "num" /\ candidate.score.n >= minScore

\* C13: the tracks of a release candidate are fetched, and the candidate can
\* become the matched release, only when its score reaches the threshold of
\* the stage: 70 for the search from the local tags, 65 for the search after
\* the LLM call.
C13_CandidateScoreThreshold ==
  (Processing /\ Music) =>
    /\ pc = "a_lookup1" => ScoreAtLeast(fr.searchResults[fr.cand], 70)
    /\ pc = "a_lookup2" => ScoreAtLeast(fr.searchResults[fr.cand], 65)
    /\ Cur.state = "AuthoritativeConfirmed" => ScoreAtLeast(Cur.prov, 70)
    /\ Cur.state = "LlmAssisted" => ScoreAtLeast(Cur.prov, 65)
    /\ (fr # NoFrame /\ fr.mbReleaseDetails.ok) =>
         /\ Cur.state \in {"AuthoritativeConfirmed", "LlmAssisted"}
         /\ Cur.prov.id = fr.searchResults[fr.cand].id
         /\ Cur.prov.track = fr.mbMatchedTrack

\* the candidate that scores 68 was passed over by the search from the tags
\* and is the matched release of the search after the LLM call
C13_Witness ==
  /\ Processing /\ Music
  /\ Cur.calls = <<"mb", "lookup", "llm", "mb", "lookup">>
  /\ Cur.state = "LlmAssisted"
  /\ Cur.prov.score = JsNum(68)
  /\ Cur.end = "moved"

\* the title and the track number the match was asked for: the tags' in the
\* stage of the local tags, the LLM's before the tags' after the LLM call
MusicSearchTitle(h) ==
  IF h.state = "LlmAssisted" THEN Or(JsStr(h.llm.title), h.meta.title) ELSE h.meta.title

MusicSearchTrackNumber(h) ==
  IF h.state = "LlmAssisted"
  THEN Or(StrOf(h.llm.trackNumber), StrOf(h.meta.trackNumber))
  ELSE StrOf(h.meta.trackNumber)

\* the tracks of the list whose normalized title is exactly the one searched
TracksTitled(tracks, searchTitle) ==
  {i \in DOMAIN tracks : NormalizedTitle(tracks[i].title) = NormalizedTitle(searchTitle)}

\* the track number searched for is not the number of a track with the title
NumberWrongForTitle(tracks, searchTitle, searchTrackNumber) ==
  /\ searchTrackNumber.k = "str" /\ TrackNum(searchTrackNumber.s) >= 0
  /\ \A i \in TracksTitled(tracks, searchTitle) :
       TrackNum(tracks[i].number) # TrackNum(searchTrackNumber.s)

\* C14: when the title searched for is exactly the title of a track of the
\* release and the track number searched for is wrong for that title, the
\* matched track is the one with the title.
C14_ExactTitleBeatsWrongNumber ==
  (/\ Processing /\ Music
   /\ Cur.state \in {"AuthoritativeConfirmed", "LlmAssisted"}
   /\ Truthy(MusicSearchTitle(Cur))
   /\ TracksTitled(Cur.prov.tracks, MusicSearchTitle(Cur).s) # {}
   /\ NumberWrongForTitle(Cur.prov.tracks, MusicSearchTitle(Cur).s,
                          MusicSearchTrackNumber(Cur)))
    => NormalizedTitle(Cur.prov.track.title) = NormalizedTitle(MusicSearchTitle(Cur).s)

VariousArtists == <<"V", "a", "r", "i", "o", "u", "s", " ", "A", "r", "t", "i", "s", "t", "s">>

\* the release group is a compilation or the release is credited to Various
\* Artists, in any letter case
ReleaseIsCompilation(release) ==
  \/ release.primaryType.k = "str"
     /\ ToLowerCase(release.primaryType.s) = ToLowerCase(<<"C", "o", "m", "p", "i", "l", "a", "t", "i", "o", "n">>)
  \/ \E i \in DOMAIN release.artistCredit :
       ToLowerCase(release.artistCredit[i]) = ToLowerCase(VariousArtists)

\* the artist of the matched track, else the tags' artist, as it goes into a file name
TrackArtistOf(h) ==
  sanitizeName(Or(JsStr(Join(h.prov.track.artistCredit, <<",", " ">>)),
                  Or(h.meta.artist, JsStr(<<>>))).s)

\* number and title of the matched track as they go into a file name
TrackNumberOf(h) == PadStart2(h.prov.track.number)
TrackTitleOf(h) == sanitizeName(h.prov.track.title)

\* C15: a file matched to a release that is a compilation by its release-group
\* type or by a Various Artists credit goes to the artist folder "Various
\* Artists" whatever its artist tags say, and its file name carries the track
\* artist between number and title when that artist is known and is not
\* Various Artists.
C15_CompilationRouting ==
  (/\ Processing /\ Music
   /\ Cur.state \in {"AuthoritativeConfirmed", "LlmAssisted"}
   /\ ReleaseIsCompilation(Cur.prov.release))
    => /\ Len(Cur.target) = 4
       /\ Cur.target[1] = Root
       /\ Cur.target[2] = VariousArtists
       /\ Cur.target[4] =
            IF Len(TrackArtistOf(Cur)) > 0
               /\ ToLowerCase(TrackArtistOf(Cur)) # ToLowerCase(VariousArtists)
            THEN TrackNumberOf(Cur) \o <<" ", "-", " ">> \o TrackArtistOf(Cur) \o <<" ", "-", " ">>
                   \o TrackTitleOf(Cur) \o Extname(Basename(Cur.path))
            ELSE TrackNumberOf(Cur) \o <<" ", "-", " ">> \o TrackTitleOf(Cur)
                   \o Extname(Basename(Cur.path))

\* a file tagged with artist Ab, matched to a release of type Compilation,
\* is moved to Various Artists/.../01 - Ab - Up.mp3
C15_Witness ==
  /\ Processing /\ Music
  /\ Cur.state = "AuthoritativeConfirmed"
  /\ Cur.meta.artist = JsStr(ArtistAb)
  /\ Cur.prov.release.primaryType = JsStr(<<"C", "o", "m", "p", "i", "l", "a", "t", "i", "o", "n">>)
  /\ Cur.end = "moved"
  /\ Cur.dest[2] = VariousArtists
  /\ Cur.dest[4] = <<"0", "1", " ", "-", " ", "A", "b", " ", "-", " ", "U", "p", ".", "m", "p", "3">>

\* a release credited to VARIOUS Artists whose tracks are credited to Various
\* Artists too: the file name has number and title only
C15_WitnessCredit ==
  /\ Processing /\ Music
  /\ Cur.state \in {"AuthoritativeConfirmed", "LlmAssisted"}
  /\ Cur.prov.release.primaryType = JsStr(<<"A", "l", "b", "u", "m">>)
  /\ ReleaseIsCompilation(Cur.prov.release)
  /\ Cur.end = "moved"
  /\ Cur.dest[2] = VariousArtists
  /\ Cur.dest[4] = <<"0", "1", " ", "-", " ", "U", "p", ".", "m", "p", "3">>

\* the paths recorded as problematic in this run
ProblematicPaths == {problematicFiles[i] : i \in DOMAIN problematicFiles}

\* C16: a file whose mkdir or rename failed is recorded in problematicFiles,
\* and the run goes on with the next file.
C16_FailedFileRecordedProblematic ==
  (Processing /\ Cur.end = "failed")
    => /\ Cur.path \in ProblematicPaths
       /\ pc = "loop"

\* the steps that ask the user
PromptSteps == {"m_prompt_dir", "m_prompt_move", "s_prompt", "a_prompt"}

\* C18: both flags are false when a run starts, rise only in a step that asks
\* the user, and once true stay true in every later step of the run.
C18_FlagsMonotone ==
  [][/\ pc = "start" => ~confirmAllCurrentCategory /\ ~skipAllCurrentCategory
     /\ (confirmAllCurrentCategory /\ run' = run) => confirmAllCurrentCategory'
     /\ (skipAllCurrentCategory /\ run' = run) => skipAllCurrentCategory'
     /\ (~confirmAllCurrentCategory /\ confirmAllCurrentCategory') => pc \in PromptSteps
     /\ (~skipAllCurrentCategory /\ skipAllCurrentCategory') => pc \in PromptSteps
     /\ (~skipAllCurrentCategory /\ skipAllCurrentCategory')
          => pc' = "loop" /\ hist'[Len(hist')].end = "declined"
     /\ (~confirmAllCurrentCategory /\ confirmAllCurrentCategory')
          => pc' \notin {"loop", "done"}]_vars

\* 'a' was answered for the first file and the second file has been moved
\* without a question, the flag still set
C18_Witness ==
  /\ confirmAllCurrentCategory
  /\ Len(hist) = 2
  /\ hist[1].end = "moved"
  /\ Cur.end = "moved"

\* 's' was answered for the first file and the second one is skipped on the flag
C18_WitnessSkipAll ==
  /\ skipAllCurrentCategory
  /\ Len(hist) = 2
  /\ hist[1].end = "declined"
  /\ Cur.end = "skipall"

\* the user has answered 'q' for the file being processed
UserQuit == Processing /\ Cur.end = "quit"

\* a file lies at path p
LiesAt(p) == \E f \in FileIds : loc[f] = p

\* the run is over at the file the user quit on: the files after it have no
\* record and lie where the scan found them, and the files moved before it
\* lie at their new paths
StoppedAtQuit ==
  /\ cfg.isInteractive
  /\ pc = "done"
  /\ Len(hist) = idx
  /\ LiesAt(files[idx])
  /\ \A j \in (idx + 1)..Len(files) : LiesAt(files[j])
  /\ \A i \in 1..(Len(hist) - 1) : hist[i].end = "moved" => LiesAt(hist[i].dest)

\* C19: an answer 'q' ends the run at the current file, which is not moved:
\* no step follows it, so no later file is resolved, asked about or moved,
\* and every file moved before stays at its new path.
C19_QuitStopsRun ==
  [][/\ ~UserQuit
     /\ UserQuit' => StoppedAtQuit']_vars

\* 'q' on the first of two files: the second one is never looked at
C19_Witness ==
  /\ UserQuit
  /\ idx = 1
  /\ Len(files) = 2
  /\ pc = "done"

\* 'q' on the second file after the first one was moved
C19_WitnessAfterMove ==
  /\ UserQuit
  /\ idx = 2
  /\ hist[1].end = "moved"
  /\ LiesAt(hist[1].dest)

\* the external calls and file operations a record of hist counts
Ops(h) == Len(h.calls) + Len(h.probes) + (IF h.mkdir THEN 1 ELSE 0)
            + (IF h.end \in {"moved", "failed"} THEN 1 ELSE 0)

\* what the providers, the model and the file system have been asked or told
Outside == <<tmdbMemo, llmMemo, seasonMemo, loc, dirs>>

\* C20: the files are processed one after the other and each call is awaited:
\* a step makes at most one external call or file operation, always for the
\* file being processed, and the next file is begun only from the head of the
\* loop, after the file before it has ended.
C20_Sequential ==
  [][/\ Len(hist') > Len(hist)
          => /\ pc = "loop"
             /\ Len(hist') = Len(hist) + 1
             /\ idx = Len(hist')
             /\ hist'[Len(hist')].path = files[idx]
             /\ Processing => Cur.end # "open"
             /\ \A i \in 1..Len(hist) : hist'[i].end = hist[i].end
             /\ Ops(hist'[Len(hist')]) <= 1
     /\ Len(hist') < Len(hist) => pc = "done" /\ hist' = <<>>
     /\ (Len(hist') = Len(hist) /\ Processing)
          => /\ \A i \in 1..(Len(hist) - 1) : hist'[i] = hist[i]
             /\ Ops(hist'[Len(hist)]) <= Ops(Cur) + 1
             /\ (hist'[Len(hist)] # Cur \/ Outside' # Outside)
                  => /\ Cur.end = "open"
                     /\ pc \notin {"start", "loop", "done"}
     /\ ~Processing /\ Len(hist') = 0 => Outside' = Outside]_vars

\* the second file is at its third call after the first file was moved
C20_Witness ==
  /\ Len(hist) = 2
  /\ hist[1].end = "moved"
  /\ Cur.end = "open"
  /\ Len(Cur.calls) = 3

\* the ways a file ends without being moved and without being found in place
NotMovedEnds == {"skipped", "declined", "skipall", "exhausted", "failed"}

\* C21: when the loop has gone through the whole list, every file that was
\* neither moved nor found in place is on the list of skipped paths or on the
\* list of problematic files that the summary prints.
C21_SummaryAccountsForUnmoved ==
  (pc = "done" /\ Processing /\ idx > Len(files) /\ ~cfg.isDryRun)
    => \A i \in 1..Len(hist) :
         hist[i].end \in NotMovedEnds
           => hist[i].path \in SkippedPaths \cup ProblematicPaths

-----------------------------------------------------------------------------
(* The filename parsers on their own: a name is drawn, one of the parsers  *)
(* is called on it, and the step keeps what it returned.                   *)

\* largest number of tokens in a drawn file name
MaxTokens == 3

\* the pieces file names are made of
NameTokens ==
  {<<"A", "b">>, <<"t", "o", "b", "e">>, <<"2", "0", "0", "1">>, <<"2", "0", "2", "0">>, <<"1", "0", "8", "0", "p">>, <<"(", "1", "9", "9", "9", ")">>,
   <<"S", "0", "1", "E", "0", "2">>, <<"2", "x", "0", "3">>, <<"E", "p", "3">>, <<"-">>}

NameLastYearWins == <<"M", "o", "v", "i", "e", ".", "T", "i", "t", "l", "e", ".", "2", "0", "0", "1", ".", "R", "e", "m", "a", "s", "t", "e", "r", "e", "d", ".", "2", "0", "2", "0", ".", "m", "k", "v">>

\* token sequences of a given length joined by dots
RECURSIVE TokenNames(_)
TokenNames(n) ==
  IF n = 1 THEN NameTokens
  ELSE {s \o <<".">> \o t : s \in TokenNames(n - 1), t \in NameTokens}

ParserNames ==
  {s \o Ext : s \in UNION {TokenNames(n) : n \in 1..MaxTokens}} \cup {NameLastYearWins}

ParserInit ==
  /\ cfg \in {c \in Configs : c.category = "movies" /\ c.isDryRun /\ ~c.isInteractive
                                /\ ~c.apiKey /\ ~c.llmKey}
  /\ wordListSet = [loaded |-> FALSE, words |-> {}, reads |-> 0]
  /\ loc = <<>>
  /\ dirs = {}
  /\ run = 1
  /\ files = <<>>
  /\ idx = 1
  /\ pc = "p_name"
  /\ confirmAllCurrentCategory = FALSE
  /\ skipAllCurrentCategory = FALSE
  /\ movedFiles = 0
  /\ problematicFiles = <<>>
  /\ skippedFilePathsDueToMetadataUncertainty = <<>>
  /\ \E n \in ParserNames, e \in BOOLEAN :
       fr = [k |-> "name", filename |-> n, enableWordlistSplitting |-> e]
  /\ tmdbMemo = {}
  /\ llmMemo = {}
  /\ seasonMemo = {}
  /\ hist = <<>>
  /\ faults = 0
  /\ preview = {}

\* the word list as the parser sees it: loaded on demand, empty when not asked for
WordsFor(enableWordlistSplitting, w) ==
  IF enableWordlistSplitting THEN getWordList(w).words ELSE {}

\* a call of parseMovieFilename(filename, enableWordlistSplitting)
ParseMovieCall ==
  /\ pc = "p_name"
  /\ pc' = "p_movie"
  /\ wordListSet' = IF fr.enableWordlistSplitting THEN getWordList(wordListSet)
                    ELSE wordListSet
  /\ fr' = [k |-> "parsed", filename |-> fr.filename,
            enableWordlistSplitting |-> fr.enableWordlistSplitting,
            result |-> parseMovieFilename(fr.filename, fr.enableWordlistSplitting,
                                          WordsFor(fr.enableWordlistSplitting, wordListSet))]
  /\ UNCHANGED <<worldVars, fsVars, idx, flagVars, countVars, memoVars, hist>>

\* a call of parseShowFilename(filename, enableWordlistSplitting)
ParseShowCall ==
  /\ pc = "p_name"
  /\ pc' = "p_show"
  /\ wordListSet' = IF fr.enableWordlistSplitting THEN getWordList(wordListSet)
                    ELSE wordListSet
  /\ fr' = [k |-> "parsed", filename |-> fr.filename,
            enableWordlistSplitting |-> fr.enableWordlistSplitting,
            result |-> parseShowFilename(fr.filename, fr.enableWordlistSplitting,
                                         WordsFor(fr.enableWordlistSplitting, wordListSet))]
  /\ UNCHANGED <<worldVars, fsVars, idx, flagVars, countVars, memoVars, hist>>

ParserNext == ParseMovieCall \/ ParseShowCall

ParserSpec == ParserInit /\ [][ParserNext]_vars

\* C22: with no parenthesised year in the name, the last standalone year is
\* the year and the title is what precedes the years: for
\* Movie.Title.2001.Remastered.2020.mkv the parser returns year "2020" and
\* title "Movie Title".
C22_LastYearWins ==
  (pc = "p_movie" /\ fr.filename = NameLastYearWins)
    => /\ fr.result.year = JsStr(<<"2", "0", "2", "0">>)
       /\ fr.result.title = <<"M", "o", "v", "i", "e", " ", "T", "i", "t", "l", "e">>

\* the name as the show patterns see it
CleanedShowName(filename) ==
  Trim(ReplaceChars(BasenameNoExt(filename, Extname(filename)), {".", "_"}, " "))

\* a pattern with a season group (S01E02, 1x02) matches the name
SeasonInName(cleanedName) ==
  RxSearch(RxSeasonEpisode, cleanedName, 1).ok \/ RxSearch(RxNxNN, cleanedName, 1).ok

\* one of the three patterns matches the name
EpisodeInName(cleanedName) ==
  SeasonInName(cleanedName) \/ RxSearch(RxEpisodeOnly, cleanedName, 1).ok

\* what the claim says of a result r, given what the patterns found in the name
SeasonDefaultRule(r, seasonFound, episodeFound) ==
  /\ (r.episodeNumber.k # "null" /\ r.seriesTitle.k # "null") => r.seasonNumber.k # "null"
  /\ episodeFound <=> r.episodeNumber.k # "null"
  /\ seasonFound => r.seasonNumber.k = "num"
  /\ ~seasonFound
       => r.seasonNumber = IF episodeFound /\ r.seriesTitle.k # "null"
                           THEN JsNum(1) ELSE JsNull

\* C23: in every result of parseShowFilename an episode number with a series
\* title comes with a season number, and the season is the default 1 exactly
\* when the name gave an episode number, no season and a series title; with
\* no series title it stays null.
C23_SeasonDefault ==
  pc = "p_show"
    => SeasonDefaultRule(fr.result, SeasonInName(CleanedShowName(fr.filename)),
                         EpisodeInName(CleanedShowName(fr.filename)))

\* Ab.Ep3.mkv: episode 3 of "Ab", season defaulted to 1
C23_Witness ==
  /\ pc = "p_show"
  /\ fr.filename = <<"A", "b", ".", "E", "p", "3", ".", "m", "k", "v">>
  /\ fr.result.seriesTitle = JsStr(<<"A", "b">>)
  /\ fr.result.episodeNumber = JsNum(3)
  /\ fr.result.seasonNumber = JsNum(1)

\* Ep3.mkv: an episode number without series title, the season stays null
C23_WitnessNoTitle ==
  /\ pc = "p_show"
  /\ fr.filename = <<"E", "p", "3", ".", "m", "k", "v">>
  /\ fr.result.seriesTitle = JsNull
  /\ fr.result.episodeNumber = JsNum(3)
  /\ fr.result.seasonNumber = JsNull

\* Ab.2x03.mkv: the season of the name is kept
C23_WitnessSeasonFound ==
  /\ pc = "p_show"
  /\ fr.filename = <<"A", "b", ".", "2", "x", "0", "3", ".", "m", "k", "v">>
  /\ fr.result.seasonNumber = JsNum(2)
  /\ fr.result.episodeNumber = JsNum(3)

\* the files the dry run before this run announced a move for
Previewed == {p.path : p \in preview}

\* C24: in the run for real that follows a dry run on the same library with
\* the same answers of the services, a file is moved to the very path the
\* dry run announced for it, also when the canonical target exists or is
\* shared by several files of the run.
C24_DryRunPreviewsRun ==
  (Processing /\ run = 3 /\ Cur.end = "moved" /\ Cur.path \in Previewed)
    => \E p \in preview : p.path = Cur.path /\ p.reported = Cur.dest


-----------------------------------------------------------------------------
(* The bound of the duplicate probe loops.                                 *)

\* the target and every one of its _dup_N candidates is taken
AllTaken(target) ==
  Exists(target) /\ \A n \in 1..MaxDupAttempts : Exists(DupOf(target, n))

C25_WitnessRunContinues ==
  /\ Len(hist) = 2 /\ hist[1].end = "exhausted" /\ hist[1].run = run
  /\ hist[2].end \in {"moved", "exhausted"}

\* each organizer gives a file up
C25_WitnessMovies == Movies /\ Processing /\ Cur.end = "exhausted"
C25_WitnessShows == Shows /\ Processing /\ Cur.end = "exhausted"
C25_WitnessMusic == Music /\ Processing /\ Cur.end = "exhausted"

\* a file lands on a suffixed candidate
C25_WitnessSuffix ==
  /\ Processing /\ ~cfg.isDryRun /\ Cur.end = "moved" /\ Len(Cur.probes) >= 2
  /\ Cur.dest = DupOf(Cur.target, Cur.probes[Len(Cur.probes)])


-----------------------------------------------------------------------------
(* The episode title after the season lookup.                              *)

\* the target path of step 4 for a frame
ShowTargetOf(f) ==
  PathJoin(PathJoin(PathJoin(sourceDirectory, ShowNames(f).seriesFolderName),
                    ShowNames(f).seasonFolderName), ShowNames(f).targetFileName)

\* the entries of a season answer with the episode number, in order
EntriesFor(raw, episodeNumber) ==
  IF raw.ok /\ raw.hasEpisodes
  THEN {i \in 1..Len(raw.episodes) : raw.episodes[i].episode_number = episodeNumber}
  ELSE {}

FirstOf(S) == CHOOSE i \in S : \A j \in S : i <= j

\* the target built right after the season answer raw carries the title
\* titleAfter(raw, carried)
SeasonStepBuilds(titleAfter(_, _)) ==
  pc = "s_season" =>
    \A m \in seasonMemo' :
      (m.q = [id |-> fr.tmdbSeriesId, season |-> fr.finalSeasonNumber.n]) =>
        hist'[Len(hist')].target =
          ShowTargetOf([fr EXCEPT !.finalEpisodeTitle = titleAfter(m.raw, fr.finalEpisodeTitle)])

\* the title of the first entry with the episode number, whatever it is
TitleOfAnyEntry(raw, carried) ==
  LET at == EntriesFor(raw, fr.finalEpisodeNumber.n)
  IN IF at = {} THEN carried ELSE JsStr(raw.episodes[FirstOf(at)].name)

\* the title of the first entry with the episode number when it has one
TitleOfNamedEntry(raw, carried) ==
  LET at == EntriesFor(raw, fr.finalEpisodeNumber.n)
  IN IF at = {} \/ Len(raw.episodes[FirstOf(at)].name) = 0 THEN carried
     ELSE JsStr(raw.episodes[FirstOf(at)].name)

\* C26 as stated: after a failed season call or a list without the episode
\* number the carried episode title is kept and the target path is built with
\* it; when an entry has the episode number its title replaces the carried one.
C26_EntryTitleReplaces == [][SeasonStepBuilds(TitleOfAnyEntry)]_vars

\* C26, amended: the title of the matching entry replaces the carried one
\* when the entry has a non-empty name; after a failed call, a list without
\* the episode number or a matching entry without a name the carried title is
\* kept; in every case the target path is built next.
C26_NamedEntryTitleReplaces == [][SeasonStepBuilds(TitleOfNamedEntry)]_vars

\* the file name of the target carries the episode title t
TargetCarries(h, t) ==
  LET name == Basename(h.target)
      tail == <<" ", "-", " ">> \o t \o Ext
  IN Len(name) > Len(tail) /\ SubSeq(name, Len(name) - Len(tail) + 1, Len(name)) = tail

\* the season was asked for a file with an embedded episode title
SeasonAsked(h) ==
  /\ Shows /\ Processing /\ h.target # <<>>
  /\ Len(h.calls) > 0 /\ h.calls[Len(h.calls)] = "season"
  /\ h.meta.episodeTitle = JsStr(ArtistAb)

\* the call failed and the embedded title is in the target
C26_Witness ==
  /\ SeasonAsked(Cur) /\ TargetCarries(Cur, ArtistAb)
  /\ \E m \in seasonMemo : ~m.raw.ok

\* the list has no entry for the episode and the embedded title is in the target
C26_WitnessNoEntry ==
  /\ SeasonAsked(Cur) /\ TargetCarries(Cur, ArtistAb)
  /\ \E m \in seasonMemo : m.raw.ok /\ Len(m.raw.episodes) = 1

\* the entry has no name and the embedded title is in the target
C26_WitnessUnnamedEntry ==
  /\ SeasonAsked(Cur) /\ TargetCarries(Cur, ArtistAb)
  /\ \E m \in seasonMemo : m.raw.ok /\ Len(m.raw.episodes) = 2 /\ m.raw.episodes[2].name = <<>>

\* the entry's name replaced the embedded title
C26_WitnessReplaced ==
  /\ SeasonAsked(Cur) /\ TargetCarries(Cur, TitleUp)
  /\ \E m \in seasonMemo : m.raw.ok /\ Len(m.raw.episodes) = 2 /\ m.raw.episodes[2].name = TitleUp


-----------------------------------------------------------------------------
(* Step 1 of organizeShows on its own: a file name and embedded metadata   *)
(* are drawn, the name is parsed, and the seed is built from both.         *)

NameTobeS01E02Ab == <<"t","o","b","e",".","S","0","1","E","0","2",".","A","b">> \o Ext

\* the file names seeds are built for
SeedNames == {NameS01E02, NameTobeS01E02, NameTobeS01E02Ab, <<"e">> \o Ext}

\* what extractVideoFileMetadata may return: null, or any mix of the four
\* fields present, absent or (for the titles) empty
SeedMetas ==
  {NoMeta} \cup
  {[NoMeta EXCEPT !.ok = TRUE, !.seriesTitle = st, !.seasonNumber = sn,
                  !.episodeNumber = en, !.episodeTitle = et] :
     st \in {JsUndef, JsStr(<<>>), JsStr(TitleJaws)}, sn \in {JsUndef, JsNum(3)},
     en \in {JsUndef, JsNum(4)}, et \in {JsUndef, JsStr(<<>>), JsStr(TitleUp)}}

SeedInit ==
  /\ cfg \in {c \in Configs : c.category = "shows" /\ c.isDryRun /\ ~c.isInteractive
                                /\ ~c.apiKey /\ ~c.llmKey}
  /\ wordListSet = [loaded |-> FALSE, words |-> {}, reads |-> 0]
  /\ loc = <<>>
  /\ dirs = {}
  /\ run = 1
  /\ files = <<>>
  /\ idx = 1
  /\ pc = "q_file"
  /\ confirmAllCurrentCategory = FALSE
  /\ skipAllCurrentCategory = FALSE
  /\ movedFiles = 0
  /\ problematicFiles = <<>>
  /\ skippedFilePathsDueToMetadataUncertainty = <<>>
  /\ \E n \in SeedNames, m \in SeedMetas :
       fr = [k |-> "file", originalFilePath |-> <<Root, n>>, videoMetadata |-> m]
  /\ tmdbMemo = {}
  /\ llmMemo = {}
  /\ seasonMemo = {}
  /\ hist = <<>>
  /\ faults = 0
  /\ preview = {}

\* parseShowFilename(fileBasename), as both branches of step 1 call it
SeedParseCall ==
  /\ pc = "q_file"
  /\ pc' = "q_parsed"
  /\ wordListSet' = getWordList(wordListSet)
  /\ fr' = [k |-> "parsed", originalFilePath |-> fr.originalFilePath,
            videoMetadata |-> fr.videoMetadata,
            fnParsed |-> parseShowFilename(Basename(fr.originalFilePath), TRUE,
                                           getWordList(wordListSet).words)]
  /\ UNCHANGED <<worldVars, fsVars, idx, flagVars, countVars, memoVars, hist>>

\* the final* variables after step 1
SeedCall ==
  /\ pc = "q_parsed"
  /\ pc' = "q_seed"
  /\ fr' = [k |-> "seed", originalFilePath |-> fr.originalFilePath,
            videoMetadata |-> fr.videoMetadata, fnParsed |-> fr.fnParsed,
            seed |-> ShowSeed(ShowFrame(fr.originalFilePath), fr.videoMetadata, fr.fnParsed)]
  /\ UNCHANGED <<worldVars, wordListSet, fsVars, idx, flagVars, countVars, memoVars, hist>>

SeedNext == SeedParseCall \/ SeedCall

SeedSpec == SeedInit /\ [][SeedNext]_vars

\* the embedded value when present, else the one parsed from the file name
EmbeddedElseParsed(embedded, parsed) ==
  IF embedded.k = "num" \/ Truthy(embedded) THEN embedded ELSE parsed

\* C27: each of series title, season number, episode number and episode
\* title of the seed is the embedded value when the metadata has one and the
\* value parsed from the file name otherwise, whatever the other fields are.
C27_SeedFieldByField ==
  pc = "q_seed" =>
    LET m == fr.videoMetadata
        p == fr.fnParsed
        s == fr.seed
    IN /\ s.finalSeriesTitle = EmbeddedElseParsed(m.seriesTitle, p.seriesTitle)
       /\ s.finalSeasonNumber = EmbeddedElseParsed(m.seasonNumber, p.seasonNumber)
       /\ s.finalEpisodeNumber = EmbeddedElseParsed(m.episodeNumber, p.episodeNumber)
       /\ s.finalEpisodeTitle = EmbeddedElseParsed(m.episodeTitle, p.episodeTitle)


-----------------------------------------------------------------------------
(* Shows: nothing is moved without series title, season and episode.       *)

\* the seed of step 1 for a file of the list
ShowSeedOf(h) ==
  ShowSeed(ShowFrame(h.path), h.meta, parseShowFilename(Basename(h.path), TRUE, cfg.wordFile))

\* series title, season number and episode number of the seed are all there
SeedComplete(f) ==
  /\ Truthy(f.finalSeriesTitle)
  /\ f.finalSeasonNumber.k = "num"
  /\ f.finalEpisodeNumber.k = "num"

\* C28: a target path is built, and so a show file moved, only with a series
\* title, a season number and an episode number; a file whose seed lacks one
\* of them (no step of the resolution supplies it) ends skipped with no target,
\* stays where it was, is on the skipped list, and the loop goes on behind it.
C28_MovedOnlyWhenIdentified ==
  (Processing /\ Shows /\ Cur.run = run /\ Cur.end # "open") =>
    /\ Cur.end \in {"moved", "dryrun"} => Cur.target # <<>>
    /\ IF SeedComplete(ShowSeedOf(Cur))
       THEN Cur.target # <<>> => Len(Cur.title) > 0
       ELSE /\ Cur.end = "skipped" /\ Cur.target = <<>> /\ Cur.dest = <<>>
            /\ LiesAt(Cur.path)
            /\ Cur.path \in SkippedPaths
            /\ pc \in {"loop", "done"} /\ idx = Len(hist) + 1

\* a file with season and episode but no series title is skipped and the
\* next one moved
C28_Witness ==
  /\ Shows /\ Len(hist) = 2 /\ hist[1].run = run
  /\ hist[1].path = <<Root, NameS01E02>> /\ hist[1].end = "skipped"
  /\ hist[1].path \in SkippedPaths
  /\ Cur.end = "moved"

\* a file with no season and episode in its name is skipped
C28_WitnessNoEpisode ==
  /\ Shows /\ Processing /\ Cur.path = <<Root, ArtistAb \o Ext>> /\ Cur.end = "skipped"
  /\ ShowSeedOf(Cur).finalSeasonNumber.k = "null" /\ Truthy(ShowSeedOf(Cur).finalSeriesTitle)

\* a file with all three is moved
C28_WitnessMoved ==
  /\ Shows /\ Processing /\ Cur.end = "moved" /\ SeedComplete(ShowSeedOf(Cur))
  /\ LiesAt(Cur.dest)


-----------------------------------------------------------------------------
(* Music: the search ends at the first match.                              *)

\* a release and a track of it have been matched for the file
MusicIsMatched(h) == h.state \in {"AuthoritativeConfirmed", "LlmAssisted"}

\* the step goes on with the same file
SameFile == Music /\ Processing /\ Len(hist') = Len(hist) /\ hist'[Len(hist)].path = Cur.path

\* C29: once a release and track pair has matched, no call follows for that
\* file: no further track list is fetched, no search is made and the LLM is
\* not asked; the LLM is asked at most once per file, only while nothing has
\* matched, and only after the search from the local tags and its lookups or,
\* when the file has no album tag, as the first call.
C29_FirstMatchEndsSearch ==
  [][SameFile =>
       LET before == Cur.calls
           after == hist'[Len(hist)].calls
       IN /\ MusicIsMatched(Cur) =>
               /\ after = before
               /\ hist'[Len(hist)].state = Cur.state
               /\ hist'[Len(hist)].prov = Cur.prov
          /\ (after # before /\ after[Len(after)] = "llm") =>
               /\ ~MusicIsMatched(Cur)
               /\ \A i \in DOMAIN before : before[i] # "llm"
               /\ IF Truthy(Cur.meta.album)
                  THEN Len(before) >= 1 /\ before[1] = "mb"
                       /\ \A i \in 2..Len(before) : before[i] = "lookup"
                  ELSE before = <<>>]_vars

\* the first of two eligible releases matched after the LLM call: one lookup
C29_Witness ==
  /\ Music /\ Processing /\ Cur.state = "LlmAssisted" /\ Cur.end = "moved"
  /\ Cur.prov.id = 1
  /\ Cur.calls[Len(Cur.calls)] = "lookup"
  /\ Cardinality({i \in DOMAIN Cur.calls : Cur.calls[i] = "lookup" /\ i > 2}) >= 1

\* matched from the local tags: the LLM was never asked
C29_WitnessTags ==
  /\ Music /\ Processing /\ cfg.llmKey /\ Cur.state = "AuthoritativeConfirmed"
  /\ Cur.end = "moved" /\ \A i \in DOMAIN Cur.calls : Cur.calls[i] # "llm"

\* no album tag: the LLM is asked first
C29_WitnessNoAlbum ==
  /\ Music /\ Processing /\ ~Truthy(Cur.meta.album)
  /\ Len(Cur.calls) >= 1 /\ Cur.calls[1] = "llm"

\* the search from the tags and its lookup matched nothing, then the LLM
C29_WitnessAfterTags ==
  /\ Music /\ Processing /\ Len(Cur.calls) >= 3
  /\ Cur.calls[1] = "mb" /\ Cur.calls[2] = "lookup" /\ Cur.calls[3] = "llm"


-----------------------------------------------------------------------------
(* Movies: what the LLM is given.                                          *)

\* the step from the LLM call of a movie asks q: the answer kept for the file
\* is the one to q, and nothing else is asked
MovieLlmStepAsks(q) ==
  pc = "m_llm" =>
    /\ \E m \in llmMemo' : m.q = q /\ hist'[Len(hist)].llm = m.ans
    /\ \A m \in llmMemo' \ llmMemo : m.q = q

\* C30 as stated: the LLM is given the original file name and, as hints, the
\* seed title and year of the failed provider query, which are the embedded
\* title and year when the file has an embedded title.
C30_LlmHintsAreSeed ==
  [][MovieLlmStepAsks([filename |-> fr.fileBasename, title |-> fr.titleForTmdb,
                       year |-> fr.yearForTmdb])]_vars

\* C30, amended: the LLM is given the original file name and, as hints, the
\* title and year parsed from the file name without word splitting, also when
\* the failed provider query was made with the embedded title and year.
C30_LlmHintsAreFilenameParse ==
  [][MovieLlmStepAsks([filename |-> fr.fileBasename,
                       title |-> parseMovieFilename(fr.fileBasename, FALSE, {}).title,
                       year |-> parseMovieFilename(fr.fileBasename, FALSE, {}).year])]_vars

\* the LLM was asked about a file whose provider query used the embedded
\* title and year 1975: the hint for the year is the (missing) one of the name
C30_Witness ==
  /\ Movies /\ Processing /\ Truthy(Cur.meta.title) /\ Cur.meta.year = JsNum(1975)
  /\ Cur.calls = <<"tmdb", "llm">>
  /\ \E m \in llmMemo : m.q.filename = Basename(Cur.path) /\ m.q.year = JsNull
                        /\ m.ans = Cur.llm

\* the LLM was asked about a file without embedded title: seed and hints agree
C30_WitnessFilenameSeed ==
  /\ Movies /\ Processing /\ ~Truthy(Cur.meta.title)
  /\ Cur.calls = <<"tmdb", "llm">>
  /\ \E m \in llmMemo : m.q.filename = Basename(Cur.path) /\ m.q.year = JsStr(<<"2","0","0","9">>)
                        /\ m.ans = Cur.llm


-----------------------------------------------------------------------------
(* Movies: the year of the first provider query.                           *)

\* the seed has a year: a number from the embedded metadata or the digits
\* parseMovieFilename found
SeedHasYear(year) == year.k = "num" \/ (year.k = "str" /\ Len(year.s) > 0)

\* C31: the first provider query of a movie carries the year of the seed
\* whenever the seed has one, be it the embedded year or the year
\* parseMovieFilename found in the file name.
C31_QueryCarriesSeedYear ==
  [][(pc = "m_tmdb1" /\ SeedHasYear(fr.yearForTmdb)) =>
       /\ \E m \in tmdbMemo' : m.q.title = Trim(fr.titleForTmdb)
                               /\ Render(m.q.year) = Render(fr.yearForTmdb)
       /\ \A m \in tmdbMemo' \ tmdbMemo : Render(m.q.year) = Render(fr.yearForTmdb)]_vars


\* ---------------------------------------------------------------------------
\* C32: confirmation before the move

\* the last answer typed for the file being processed
LastAnswer == Cur.asked[Len(Cur.asked)]

\* an earlier file of the same run was answered 'a'
EarlierConfirmAll ==
  \E j \in 1..(Len(hist) - 1) :
    /\ hist[j].run = Cur.run
    /\ \E k \in 1..Len(hist[j].asked) : hist[j].asked[k] = "a"

\* C32: in an interactive run a step renames only the file being processed,
\* and only when the last answer typed for that file was 'y' or 'a' or an
\* earlier file of the run was answered 'a'; a prompt answered 'n', 's', 'q'
\* or anything else ends the file where it lies, and the file's record shows
\* no rename.
C32_ConfirmationPrecedesMove ==
  [][(cfg.isInteractive /\ Processing) =>
       /\ loc' # loc =>
            /\ \A f \in FileIds : loc'[f] # loc[f] => loc[f] = Cur.path
            /\ \/ Len(Cur.asked) > 0 /\ LastAnswer \in {"y", "a"}
               \/ EarlierConfirmAll
       /\ (pc \in {"m_prompt_dir", "m_prompt_move", "s_prompt", "a_prompt"}
             /\ hist'[Len(hist)].asked[Len(Cur.asked) + 1] \notin {"y", "a"}) =>
            /\ loc' = loc
            /\ pc' \in {"loop", "done"}
            /\ hist'[Len(hist)].end \in {"declined", "quit"}
            /\ hist'[Len(hist)].dest = <<>>]_vars

\* a file was moved after 'y' was typed for it
C32_Witness ==
  /\ cfg.isInteractive /\ Processing
  /\ Cur.end = "moved" /\ Cur.dest # <<>> /\ LiesAt(Cur.dest) /\ ~LiesAt(Cur.path)
  /\ Len(Cur.asked) > 0 /\ LastAnswer = "y"

\* a file was moved without a prompt of its own, under an earlier 'a'
C32_WitnessEarlierAll ==
  /\ cfg.isInteractive /\ Processing
  /\ Cur.end = "moved" /\ Cur.asked = <<>> /\ EarlierConfirmAll

\* a movie whose directory prompt was answered 'y' and whose move prompt 'n'
C32_WitnessDeclinedMove ==
  /\ cfg.isInteractive /\ Processing /\ cfg.category = "movies"
  /\ Cur.asked = <<"y", "n">> /\ Cur.end = "declined" /\ LiesAt(Cur.path)

\* an unrecognised answer left the file where it was
C32_WitnessInvalid ==
  /\ cfg.isInteractive /\ Processing
  /\ Cur.asked = <<"x">> /\ Cur.end = "declined" /\ LiesAt(Cur.path)


\* ---------------------------------------------------------------------------
\* C33: the word list of one process.  A process calls getWordList and the
\* two parsers in any order while 20k.txt may be written, emptied or removed
\* between the calls.

MaxCalls == 3

WordNames == {NameTobe2009, NameTobeS01E02, ArtistAb \o Ext}

WordInit ==
  /\ cfg \in {c \in Configs : c.category = "movies" /\ c.isDryRun /\ ~c.isInteractive
                                /\ ~c.apiKey /\ ~c.llmKey}
  /\ wordListSet = [loaded |-> FALSE, words |-> {}, reads |-> 0]
  /\ loc = <<>>
  /\ dirs = {}
  /\ run = 1
  /\ files = <<>>
  /\ idx = 0
  /\ pc = "w_call"
  /\ confirmAllCurrentCategory = FALSE
  /\ skipAllCurrentCategory = FALSE
  /\ movedFiles = 0
  /\ problematicFiles = <<>>
  /\ skippedFilePathsDueToMetadataUncertainty = <<>>
  /\ fr = [k |-> "none"]
  /\ tmdbMemo = {}
  /\ llmMemo = {}
  /\ seasonMemo = {}
  /\ hist = <<>>
  /\ faults = 0
  /\ preview = {}

\* a call of getWordList()
WordListCall ==
  /\ pc = "w_call" /\ idx < MaxCalls
  /\ idx' = idx + 1
  /\ wordListSet' = getWordList(wordListSet)
  /\ fr' = [k |-> "words", result |-> getWordList(wordListSet).words]
  /\ UNCHANGED <<worldVars, fsVars, pc, flagVars, countVars, memoVars, hist>>

\* a call of parseMovieFilename(filename, enableWordlistSplitting)
WordParseMovieCall ==
  /\ pc = "w_call" /\ idx < MaxCalls
  /\ idx' = idx + 1
  /\ \E filename \in WordNames, enableWordlistSplitting \in BOOLEAN :
       /\ wordListSet' = IF enableWordlistSplitting THEN getWordList(wordListSet)
                         ELSE wordListSet
       /\ fr' = [k |-> "movie", filename |-> filename,
                 enableWordlistSplitting |-> enableWordlistSplitting,
                 result |-> parseMovieFilename(filename, enableWordlistSplitting,
                                               WordsFor(enableWordlistSplitting, wordListSet))]
  /\ UNCHANGED <<worldVars, fsVars, pc, flagVars, countVars, memoVars, hist>>

\* a call of parseShowFilename(filename, enableWordlistSplitting)
WordParseShowCall ==
  /\ pc = "w_call" /\ idx < MaxCalls
  /\ idx' = idx + 1
  /\ \E filename \in WordNames, enableWordlistSplitting \in BOOLEAN :
       /\ wordListSet' = IF enableWordlistSplitting THEN getWordList(wordListSet)
                         ELSE wordListSet
       /\ fr' = [k |-> "show", filename |-> filename,
                 enableWordlistSplitting |-> enableWordlistSplitting,
                 result |-> parseShowFilename(filename, enableWordlistSplitting,
                                              WordsFor(enableWordlistSplitting, wordListSet))]
  /\ UNCHANGED <<worldVars, fsVars, pc, flagVars, countVars, memoVars, hist>>

\* 20k.txt changes on disk between two calls
WordFileWritten ==
  /\ pc = "w_call"
  /\ \E w \in {WordFile, {}} \ {cfg.wordFile} : cfg' = [cfg EXCEPT !.wordFile = w]
  /\ UNCHANGED <<wordListSet, fsVars, run, files, preview, idx, pc, flagVars, countVars, fr, memoVars,
                 hist>>

WordNext == WordListCall \/ WordParseMovieCall \/ WordParseShowCall \/ WordFileWritten

WordSpec == WordInit /\ [][WordNext]_vars

\* C33: within one process the dictionary file is read at most once; once
\* loaded the word list never changes, so an empty one (file missing,
\* unreadable or empty) is not retried even when the file has words later;
\* and every parse made with an empty loaded list gives what the parse with
\* word-list splitting disabled gives.
C33_WordListLoadedOnce ==
  [][/\ wordListSet'.reads <= 1
     /\ wordListSet.loaded => wordListSet' = wordListSet
     /\ (wordListSet'.loaded /\ wordListSet'.words = {} /\ fr'.k = "movie")
          => fr'.result = parseMovieFilename(fr'.filename, FALSE, WordFile)
     /\ (wordListSet'.loaded /\ wordListSet'.words = {} /\ fr'.k = "show")
          => fr'.result = parseShowFilename(fr'.filename, FALSE, WordFile)]_vars

\* the list was loaded empty, the file has words by now, and a later parse of
\* tobe.2009.mkv with splitting asked for came out unsplit
C33_Witness ==
  /\ pc = "w_call" /\ idx = MaxCalls
  /\ wordListSet = [loaded |-> TRUE, words |-> {}, reads |-> 1]
  /\ cfg.wordFile = WordFile
  /\ fr.k = "movie" /\ fr.enableWordlistSplitting /\ fr.filename = NameTobe2009
  /\ fr.result # parseMovieFilename(NameTobe2009, TRUE, WordFile)

\* the list was loaded with words and a later call returned the same list
\* after the file was emptied
C33_WitnessLoaded ==
  /\ pc = "w_call" /\ idx >= 2
  /\ wordListSet = [loaded |-> TRUE, words |-> WordFile, reads |-> 1]
  /\ cfg.wordFile = {}
  /\ fr.k = "words" /\ fr.result = WordFile


\* ---------------------------------------------------------------------------
\* C34: empty path segments

\* the steps of an iteration that touch the filesystem
FsSteps ==
  {"m_mkdir", "m_access", "m_probe", "m_rename",
   "s_mkdir", "s_access", "s_probe", "s_rename",
   "a_mkdir", "a_access", "a_probe", "a_rename"}

\* C34: no organizer reaches mkdir, access or rename for a file one of whose
\* sanitized segments is empty: the movie folder name, the series title of a
\* show, the artist and album folders of a track are all non-empty there
\* (the file was skipped before otherwise).
C34_EmptySegmentSkipped ==
  (Processing /\ pc \in FsSteps) =>
    /\ fr.k = "movie" => Len(fr.targetMovieDir) = Len(sourceDirectory) + 1
    /\ fr.k = "show" => Len(sanitizeName(fr.finalSeriesTitle.s)) > 0
    /\ fr.k = "music" => Len(fr.targetAlbumPath) = Len(sourceDirectory) + 2


\* ---------------------------------------------------------------------------
\* C35: characters of the target path

\* a segment of the target path, the last one without the file's extension
SegmentName(target, i) ==
  IF i = Len(target) THEN BasenameNoExt(target[i], Extname(target[i])) ELSE target[i]

\* C35: no segment of a computed target path below the source directory
\* holds one of the characters / ? % * : | " < > . (the extension aside).
C35_TargetSegmentsClean ==
  (Processing /\ Cur.target # <<>>) =>
    \A i \in (Len(sourceDirectory) + 1)..Len(Cur.target) :
      \A k \in 1..Len(SegmentName(Cur.target, i)) :
        SegmentName(Cur.target, i)[k] \notin IllegalChars


\* ---------------------------------------------------------------------------
\* C36: the series folder name

\* a series year is known: a number, or a non-empty string of the file name
SeriesYearKnown(year) == year.k = "num" \/ (year.k = "str" /\ Len(year.s) > 0)

FourDigits(s) == Len(s) = 4 /\ \A k \in 1..4 : s[k] \in Digit

\* the series folder the frame's season path lies in
SeriesFolderOf(f) == Basename(Dirname(f.targetSeasonPath))

\* C36: the series folder of a show file about to be created is the sanitized
\* series title alone when no series year is known, and the title followed by
\* " (<year>)" with a 4-digit year otherwise.
C36_SeriesFolderName ==
  (/\ Processing /\ fr.k = "show"
   /\ pc \in {"s_prompt", "s_mkdir", "s_access", "s_probe", "s_rename"}
   /\ Len(fr.targetSeasonPath) = Len(sourceDirectory) + 2) =>
    IF SeriesYearKnown(fr.finalSeriesYear)
    THEN /\ FourDigits(Render(fr.finalSeriesYear))
         /\ SeriesFolderOf(fr) = sanitizeName(fr.finalSeriesTitle.s) \o <<" ", "(">>
                                   \o Render(fr.finalSeriesYear) \o <<")">>
    ELSE SeriesFolderOf(fr) = sanitizeName(fr.finalSeriesTitle.s)


\* ---------------------------------------------------------------------------
\* C37: a declined file

\* the user's final answer for the file being processed declines it
Declined ==
  /\ cfg.isInteractive /\ Processing
  /\ Len(Cur.asked) > 0 /\ LastAnswer \notin {"y", "a"}

\* C37: when the final answer for a file is 'n', 's', 'q' or unrecognised, no
\* directory has been created for the file and the file lies where it was.
C37_DeclinedLeavesFilesystem ==
  Declined => /\ Cur.made = {}
              /\ Cur.dest = <<>>
              /\ LiesAt(Cur.path)


\* ---------------------------------------------------------------------------
\* C38: skip all

\* 's' was typed at a prompt of this run
SkipAllAnswered ==
  \E i \in 1..Len(hist) : \E k \in 1..Len(hist[i].asked) : hist[i].asked[k] = "s"

\* C38: once 's' has been answered for a file, no step of the run creates a
\* directory or renames a file, for that file or for a later one.
C38_SkipAllStopsFilesystem ==
  [][(Processing /\ SkipAllAnswered /\ run' = run) => (dirs' = dirs /\ loc' = loc)]_vars

\* a later file that resolves to a target was passed over after an 's'
C38_Witness ==
  /\ cfg.isInteractive /\ ~cfg.isDryRun /\ Len(hist) >= 2
  /\ \E k \in 1..Len(hist[Len(hist) - 1].asked) : hist[Len(hist) - 1].asked[k] = "s"
  /\ Cur.end = "skipall" /\ Cur.target # <<>> /\ Cur.target # Cur.path
  /\ LiesAt(Cur.path) /\ ~Cur.mkdir

\* 's' at the move prompt of a movie, after its directory prompt was answered 'y'
C38_WitnessMovePrompt ==
  /\ cfg.isInteractive /\ cfg.category = "movies" /\ Len(hist) >= 2
  /\ hist[Len(hist) - 1].asked = <<"y", "s">>
  /\ Cur.end = "skipall" /\ LiesAt(Cur.path)


\* ---------------------------------------------------------------------------
\* C39: the external calls of one file

\* the steps that resolve a video file's identity
ResolutionSteps == {"m_tmdb1", "m_llm", "m_tmdb2", "s_search1", "s_llm", "s_search2", "s_season"}

MovieCallOrders ==
  {<<>>, <<"tmdb">>, <<"tmdb", "llm">>, <<"tmdb", "llm", "tmdb">>}

ShowCallOrders ==
  MovieCallOrders \cup {<<"tmdb", "season">>, <<"tmdb", "llm", "tmdb", "season">>}

\* C39: the calls made for one movie are a prefix of search, LLM, search; for
\* one show the same with at most one season-list call at the end, made after
\* a search.  The LLM is called only after the first search failed, the second
\* search is made only after the LLM returned a result, and every resolution
\* step makes exactly one call, so that the file leaves the resolution steps
\* after at most four of them.
C39_CallsBoundedAndOrdered ==
  [][(Processing /\ ~Music /\ Len(hist') = Len(hist)) =>
       LET before == Cur.calls
           after == hist'[Len(hist)].calls
       IN /\ after \in (IF Shows THEN ShowCallOrders ELSE MovieCallOrders)
          /\ pc \in ResolutionSteps <=> after # before
          /\ after # before =>
               /\ after = Append(before, after[Len(after)])
               /\ after[Len(after)] = "llm" => before = <<"tmdb">> /\ ~Cur.prov.ok
               /\ (after[Len(after)] = "tmdb" /\ before # <<>>) =>
                    before = <<"tmdb", "llm">> /\ Cur.llm.ok]_vars

\* a movie that took both searches and the LLM call and then went on
C39_Witness ==
  /\ Processing /\ Movies
  /\ Cur.calls = <<"tmdb", "llm", "tmdb">> /\ pc \notin ResolutionSteps

\* a show that made all four calls
C39_WitnessShow ==
  /\ Processing /\ Shows
  /\ Cur.calls = <<"tmdb", "llm", "tmdb", "season">> /\ Cur.end = "moved"

\* a show whose LLM call failed: no second search, the file is skipped
C39_WitnessLlmFailed ==
  /\ Processing /\ Shows
  /\ Cur.calls = <<"tmdb", "llm">> /\ ~Cur.llm.ok /\ Cur.end = "skipped"


\* ---------------------------------------------------------------------------
\* C40: splitStringByWords.  A text and a dictionary are drawn; the function
\* is applied to them, and the scan of one of the text's blocks is followed
\* step by step.

MaxPieces == 3

SplitPieces == {<<"t","o">>, <<"B","e">>, <<"x">>, <<" ">>, <<" "," ">>}

\* concatenations of at most n pieces
RECURSIVE PieceTexts(_)
PieceTexts(n) ==
  IF n = 0 THEN {<<>>}
  ELSE PieceTexts(n - 1) \cup {s \o p : s \in PieceTexts(n - 1), p \in SplitPieces}

SplitDictionaries ==
  {{}, WordFile, WordFile \cup {<<"t","o","b","e">>}, {<<"e">>, <<"x","t">>}}

SplitInit ==
  /\ cfg \in {c \in Configs : c.category = "movies" /\ c.isDryRun /\ ~c.isInteractive
                                /\ ~c.apiKey /\ ~c.llmKey /\ c.wordFile = {}}
  /\ wordListSet = [loaded |-> FALSE, words |-> {}, reads |-> 0]
  /\ loc = <<>>
  /\ dirs = {}
  /\ run = 1
  /\ files = <<>>
  /\ idx = 1
  /\ pc = "x_text"
  /\ confirmAllCurrentCategory = FALSE
  /\ skipAllCurrentCategory = FALSE
  /\ movedFiles = 0
  /\ problematicFiles = <<>>
  /\ skippedFilePathsDueToMetadataUncertainty = <<>>
  /\ \E text \in PieceTexts(MaxPieces), dictionary \in SplitDictionaries :
       fr = [k |-> "text", text |-> text, dictionary |-> dictionary]
  /\ tmdbMemo = {}
  /\ llmMemo = {}
  /\ seasonMemo = {}
  /\ hist = <<>>
  /\ faults = 0
  /\ preview = {}

\* a call of splitStringByWords(text, dictionary)
SplitCall ==
  /\ pc = "x_text"
  /\ pc' = "x_done"
  /\ fr' = [k |-> "split", text |-> fr.text, dictionary |-> fr.dictionary,
            result |-> splitStringByWords(fr.text, fr.dictionary)]
  /\ UNCHANGED <<worldVars, wordListSet, fsVars, idx, flagVars, countVars, memoVars, hist>>

\* the loop over the parts reaches a part that is not whitespace: i = 0
SplitScanBegin ==
  /\ pc = "x_text" /\ Len(fr.text) > 0 /\ fr.dictionary # {}
  /\ \E p \in 1..Len(SplitKeepSpaces(fr.text)) :
       /\ SplitKeepSpaces(fr.text)[p][1] \notin Space
       /\ fr' = [k |-> "scan", text |-> fr.text, dictionary |-> fr.dictionary,
                 currentBlock |-> SplitKeepSpaces(fr.text)[p], i |-> 0, blockResult |-> <<>>]
  /\ pc' = "x_scan"
  /\ UNCHANGED <<worldVars, wordListSet, fsVars, idx, flagVars, countVars, memoVars, hist>>

\* one round of while (i < currentBlock.length): the longest dictionary word
\* at i, else the chunk up to where a word can start
SplitScanStep ==
  /\ pc = "x_scan" /\ fr.i < Len(fr.currentBlock)
  /\ LET matchEndPosition == LongestMatchEnd(fr.currentBlock, fr.dictionary, fr.i)
         next == IF matchEndPosition > 0 THEN matchEndPosition
                 ELSE NonWordChunkEnd(fr.currentBlock, fr.dictionary, fr.i + 1)
     IN fr' = [fr EXCEPT !.i = next,
                         !.blockResult = Append(@, Substring(fr.currentBlock, fr.i, next))]
  /\ UNCHANGED <<worldVars, wordListSet, fsVars, idx, pc, flagVars, countVars, memoVars, hist>>

SplitNext == SplitCall \/ SplitScanBegin \/ SplitScanStep

SplitSpec == SplitInit /\ [][SplitNext]_vars

\* a string without its whitespace
StripSpaces(s) == SelectSeq(s, LAMBDA c : c \notin Space)

\* C40: the result of splitStringByWords, whitespace deleted, is the input
\* with its whitespace deleted: same characters, same order, same case.  Each
\* round of the scan moves the position forward by at least one character and
\* never past the end of the block, and the pieces pushed when the position
\* reaches the end are the block cut at those positions.
C40_SplitOnlyInsertsBoundaries ==
  [][/\ pc' = "x_done" => StripSpaces(fr'.result) = StripSpaces(fr'.text)
     /\ (pc = "x_scan" /\ pc' = "x_scan") =>
          /\ fr'.i > fr.i /\ fr'.i <= Len(fr.currentBlock)
          /\ Join(fr'.blockResult, <<>>) = Substring(fr.currentBlock, 0, fr'.i)
          /\ fr'.i = Len(fr.currentBlock) =>
               fr'.blockResult = SegmentBlock(fr.currentBlock, fr.dictionary, 0)]_vars

\* "toBex" was cut into "to Be x": boundaries were inserted, the case kept
C40_Witness ==
  /\ pc = "x_done"
  /\ fr.text = <<"t","o","B","e","x">>
  /\ fr.result = <<"t","o"," ","B","e"," ","x">>

\* blanks at the ends and a double blank inside were reduced
C40_WitnessBlanks ==
  /\ pc = "x_done"
  /\ fr.text = <<" ","t","o"," "," ">> /\ fr.dictionary = WordFile
  /\ fr.result = <<"t","o">>

\* a scan that ended after three rounds
C40_WitnessScan ==
  /\ pc = "x_scan" /\ fr.i = Len(fr.currentBlock) /\ Len(fr.blockResult) = 3

====
